---- MODULE Spec2Model ----
(***************************************************************************)
(* State-machine model of the dataset versioning utility:                  *)
(*   src/src/utils.py            get_next_version_number, file helpers     *)
(*   src/src/version_manager.py  VersionManager                            *)
(*   src/src/rollback.py         RollbackManager                           *)
(*                                                                         *)
(* The persisted layout is the state: the versions directory (one          *)
(* sub-directory per version holding the copied dataset and metadata.json),*)
(* the index file, the current-version marker file and the rollback log.   *)
(* Names are sequences of one-character strings so that formatting         *)
(* (f"v{n}"), parsing (int(item[1:])) and strip() are computed.            *)
(* Timestamps (get_timestamp) are left out of every record.                *)
(***************************************************************************)
EXTENDS Integers, Sequences, FiniteSets, TLC

VARIABLES
    versions_dir,            \* directory name -> [dataset, metadata] (the files in it)
    index_file,              \* None, or Some(sequence of index entries)
    current_version_file,    \* None, or Some(text of the marker file)
    rollback_log_file,       \* None, or Some(sequence of rollback events)
    last,                    \* the last call made and how it ended
    returned,                \* history: numbers of the ids create_version returned, in order
    removed_highest,         \* history: a manual removal took the highest-numbered directory
    rollbacks_done,          \* history: how many rollbacks succeeded
    input_files,             \* path -> what is at that path outside the store
    procs                    \* process -> the locals of its create_version call in flight

vars == <<versions_dir, index_file, current_version_file, rollback_log_file,
          last, returned, removed_highest, rollbacks_done, input_files, procs>>

----------------------------------------------------------------------------
(* Bounds of the model *)

MaxVersions == 3

MaxCreates == 3

MaxRollbacks == 2

----------------------------------------------------------------------------
(* Python's Optional: None is the empty sequence, a value x is <<x>> *)

None == <<>>

Some(x) == <<x>>

----------------------------------------------------------------------------
(* Strings as sequences of characters *)

DigitChars == <<"0", "1", "2", "3", "4", "5", "6", "7", "8", "9">>

Whitespace == {" ", "\n", "\t"}

DigitValue(c) == (CHOOSE i \in 1..10 : DigitChars[i] = c) - 1

IsDigit(c) == \E i \in 1..10 : DigitChars[i] = c

RECURSIVE IntToStr(_)
IntToStr(n) ==
    IF n < 10 THEN <<DigitChars[n + 1]>>
    ELSE IntToStr(n \div 10) \o <<DigitChars[(n % 10) + 1]>>

RECURSIVE DigitsToInt(_)
DigitsToInt(s) ==
    IF Len(s) = 0 THEN 0
    ELSE 10 * DigitsToInt(SubSeq(s, 1, Len(s) - 1)) + DigitValue(s[Len(s)])

\* f"v{version_number}"
VersionName(n) == <<"v">> \o IntToStr(n)

\* item.startswith('v')
StartsWithV(item) == Len(item) > 0 /\ item[1] = "v"

\* item[1:]
Tail1(item) == SubSeq(item, 2, Len(item))

RECURSIVE LStrip(_)
LStrip(s) == IF Len(s) > 0 /\ s[1] \in Whitespace THEN LStrip(Tail(s)) ELSE s

RECURSIVE RStrip(_)
RStrip(s) ==
    IF Len(s) > 0 /\ s[Len(s)] \in Whitespace
    THEN RStrip(SubSeq(s, 1, Len(s) - 1))
    ELSE s

Strip(s) == RStrip(LStrip(s))

Range(s) == {s[i] : i \in 1..Len(s)}

\* digits with single underscores between them, as int() and float() take them
IsDigitGroup(s) ==
    /\ Len(s) > 0
    /\ IsDigit(s[1])
    /\ IsDigit(s[Len(s)])
    /\ \A i \in 1..Len(s) : IsDigit(s[i]) \/ s[i] = "_"
    /\ \A i \in 1..(Len(s) - 1) : ~(s[i] = "_" /\ s[i + 1] = "_")

HasSign(s) == Len(s) > 0 /\ s[1] \in {"+", "-"}

Unsigned(s) == IF HasSign(s) THEN Tail(s) ELSE s

\* int(s): Some(number), or None for ValueError. Surrounding whitespace, a
\* sign and underscores between digits are accepted, as Python accepts them.
ParseInt(s) ==
    LET t == Strip(s)
        body == Unsigned(t)
        magnitude == DigitsToInt(SelectSeq(body, IsDigit))
    IN  IF IsDigitGroup(body)
        THEN Some(IF HasSign(t) /\ t[1] = "-" THEN 0 - magnitude ELSE magnitude)
        ELSE None

UpperChars == <<"A", "B", "C", "D", "E", "F", "G", "H", "I", "J", "K", "L", "M",
                "N", "O", "P", "Q", "R", "S", "T", "U", "V", "W", "X", "Y", "Z">>

LowerChars == <<"a", "b", "c", "d", "e", "f", "g", "h", "i", "j", "k", "l", "m",
                "n", "o", "p", "q", "r", "s", "t", "u", "v", "w", "x", "y", "z">>

LowerChar(c) ==
    IF \E i \in 1..Len(UpperChars) : UpperChars[i] = c
    THEN LowerChars[CHOOSE i \in 1..Len(UpperChars) : UpperChars[i] = c]
    ELSE c

\* str.lower()
Lower(s) == [i \in 1..Len(s) |-> LowerChar(s[i])]

\* the first position of s holding one of the characters, 0 if there is none
IndexOf(s, chars) ==
    IF \E i \in 1..Len(s) : s[i] \in chars
    THEN CHOOSE i \in 1..Len(s) :
             s[i] \in chars /\ \A j \in 1..(i - 1) : s[j] \notin chars
    ELSE 0

\* float(s) does not raise ValueError: [sign] inf | infinity | nan, or
\* [sign] digits [. [digits]] [exponent] | [sign] . digits [exponent]
FloatParses(s) ==
    LET body == Unsigned(Strip(s))
        e == IndexOf(body, {"e", "E"})
        mantissa == IF e = 0 THEN body ELSE SubSeq(body, 1, e - 1)
        exponent == IF e = 0 THEN <<>> ELSE SubSeq(body, e + 1, Len(body))
        dot == IndexOf(mantissa, {"."})
        whole == IF dot = 0 THEN mantissa ELSE SubSeq(mantissa, 1, dot - 1)
        fraction == IF dot = 0 THEN <<>>
                    ELSE SubSeq(mantissa, dot + 1, Len(mantissa))
    IN  \/ Lower(body) \in {<<"i", "n", "f">>, <<"n", "a", "n">>,
                             <<"i", "n", "f", "i", "n", "i", "t", "y">>}
        \/ /\ e = 0 \/ IsDigitGroup(Unsigned(exponent))
           /\ IF dot = 0 THEN IsDigitGroup(whole)
              ELSE /\ whole = <<>> \/ IsDigitGroup(whole)
                   /\ fraction = <<>> \/ IsDigitGroup(fraction)
                   /\ whole # <<>> \/ fraction # <<>>

----------------------------------------------------------------------------
(* The inputs of the calls *)

\* paths a caller may pass as input_file
InputPaths == {"a.csv", "adir", "missing.csv"}

\* a text as the sequence of its characters
Chars(text) ==
    CASE text = "1" -> <<"1">>
      [] text = "2" -> <<"2">>
      [] text = "3" -> <<"3">>
      [] text = "1.5" -> <<"1", ".", "5">>
      [] text = "2.0" -> <<"2", ".", "0">>
      [] text = "x" -> <<"x">>
      [] text = "y" -> <<"y">>
      [] text = "" -> <<>>

\* a CSV file: its header row and its data rows (one value per column)
CsvFile(header, rows) == [kind |-> "file", header |-> header, rows |-> rows]

\* the reader of the csv module before its first character
ReaderStart ==
    [state |-> "START_RECORD", field |-> <<>>, fields |-> <<>>, records |-> <<>>]

parse_save_field(r) == [r EXCEPT !.fields = Append(@, r.field), !.field = <<>>]

parse_add_char(r, c, state) == [r EXCEPT !.field = Append(@, c), !.state = state]

\* what the reader does at the end of a field: "EOL" closes the line, a line
\* break is followed by the "EOL" of its line
end_of_field(r, c) ==
    [parse_save_field(r) EXCEPT
        !.state = IF c = "EOL" THEN "START_RECORD" ELSE "EAT_CRNL"]

\* the reader of the csv module (excel dialect, not strict) on one character;
\* "EOL" is the end of a line
parse_process_char(r, c) ==
    CASE r.state = "START_RECORD" /\ c = "EOL" -> r
      [] r.state = "START_RECORD" /\ c = "\n" -> [r EXCEPT !.state = "EAT_CRNL"]
      [] r.state \in {"START_RECORD", "START_FIELD"} /\ c \notin {"EOL", "\n"} ->
             IF c = "\"" THEN [r EXCEPT !.state = "IN_QUOTED_FIELD"]
             ELSE IF c = "," THEN [parse_save_field(r) EXCEPT !.state = "START_FIELD"]
             ELSE parse_add_char(r, c, "IN_FIELD")
      [] r.state = "START_FIELD" /\ c \in {"EOL", "\n"} -> end_of_field(r, c)
      [] r.state = "IN_FIELD" ->
             IF c \in {"EOL", "\n"} THEN end_of_field(r, c)
             ELSE IF c = "," THEN [parse_save_field(r) EXCEPT !.state = "START_FIELD"]
             ELSE parse_add_char(r, c, "IN_FIELD")
      [] r.state = "IN_QUOTED_FIELD" ->
             IF c = "EOL" THEN r
             ELSE IF c = "\"" THEN [r EXCEPT !.state = "QUOTE_IN_QUOTED_FIELD"]
             ELSE parse_add_char(r, c, "IN_QUOTED_FIELD")
      [] r.state = "QUOTE_IN_QUOTED_FIELD" ->
             IF c = "\"" THEN parse_add_char(r, c, "IN_QUOTED_FIELD")
             ELSE IF c = "," THEN [parse_save_field(r) EXCEPT !.state = "START_FIELD"]
             ELSE IF c \in {"EOL", "\n"} THEN end_of_field(r, c)
             ELSE parse_add_char(r, c, "IN_FIELD")
      [] r.state = "EAT_CRNL" ->
             IF c = "EOL" THEN [r EXCEPT !.state = "START_RECORD"] ELSE r

\* the end of a line: the record is returned once the reader is back at the
\* start of a record
end_of_line(r) ==
    LET e == parse_process_char(r, "EOL")
    IN  IF e.state = "START_RECORD"
        THEN [e EXCEPT !.records = Append(@, e.fields), !.fields = <<>>]
        ELSE e

\* the end of the input: a record left open inside a quoted field is returned
end_of_input(r) ==
    IF r.state = "IN_QUOTED_FIELD"
    THEN Append(r.records, Append(r.fields, r.field))
    ELSE r.records

RECURSIVE csv_parse(_, _, _)
csv_parse(text, i, r) ==
    IF i > Len(text)
    THEN end_of_input(IF Len(text) > 0 /\ text[Len(text)] # "\n"
                      THEN end_of_line(r) ELSE r)
    ELSE LET after == parse_process_char(r, text[i])
         IN  csv_parse(text, i + 1,
                       IF text[i] = "\n" THEN end_of_line(after) ELSE after)

\* list(csv.reader(f)) for a file holding the text
csv_reader(text) == csv_parse(text, 1, ReaderStart)

\* a CSV file given by its text: columns = next(reader, []) and the records
\* that follow
CsvText(text) ==
    LET records == csv_reader(text)
    IN  [kind |-> "file", text |-> text,
         header |-> IF records = <<>> THEN <<>> ELSE Head(records),
         rows |-> IF records = <<>> THEN <<>> ELSE Tail(records)]

\* what is on disk outside the store: two CSV files with different rows,
\* columns and value shapes, a directory, and nothing at "missing.csv"
DiskFiles ==
    [p \in {"a.csv", "b.csv", "adir", "missing.csv"} |->
        CASE p = "a.csv" ->
                 CsvFile(<<"id", "score">>,
                         <<<<Chars("1"), Chars("1.5")>>,
                           <<Chars("2"), Chars("2.0")>>>>)
          [] p = "b.csv" ->
                 CsvFile(<<"id", "name">>,
                         <<<<Chars("x"), Chars("x")>>,
                           <<Chars("y"), Chars("")>>,
                           <<Chars("x"), Chars("y")>>>>)
          [] p = "adir" -> [kind |-> "directory"]
          [] OTHER -> [kind |-> "absent"]]

\* the characters of the CSV texts: a letter, the delimiter, the line break
\* and the quote character
CsvChars == {"a", ",", "\n", "\""}

\* the longest CSV text
MaxText == 5

\* the texts "a.csv" may hold
CsvTexts == UNION {[1..n -> CsvChars] : n \in 0..MaxText}

\* a file with the given header, the given number of rows and the given text
\* in its "id" column
FileWith(header, row_count, id_text) ==
    CsvFile(header,
            [i \in 1..row_count |->
                [k \in 1..Len(header) |->
                    CASE header[k] = "id" -> Chars(id_text)
                      [] header[k] = "score" -> Chars("1.5")
                      [] OTHER -> Chars("x")]])

\* files to compare with "a.csv": with its columns, with one less, with one
\* more and with another one; with its number of rows and with one more; with
\* an "id" column of its type and of another type
ComparedFiles ==
    {FileWith(header, row_count, id_text) :
        header \in {<<"id", "score">>, <<"id">>, <<"id", "score", "name">>,
                    <<"id", "name">>},
        row_count \in {2, 3},
        id_text \in {"1", "x"}}

\* the number of rows next(reader, None) is called for
SampleRows == 100

\* a file whose reading as text raises at the given place
FaultyFile(csv_file, fault) ==
    [kind |-> "file", header |-> csv_file.header, rows |-> csv_file.rows,
     fault |-> fault]

\* a file of more rows than are sampled, its first column of integers
LongFile ==
    CsvFile(<<"id", "name">>,
            [i \in 1..(SampleRows + 1) |-> <<Chars("1"), Chars("x")>>])

\* files that are read without error, and files that are not: a short one
\* and one that is longer than the sample
DegradedFiles ==
    {DiskFiles["a.csv"], LongFile}
        \cup {FaultyFile(DiskFiles["a.csv"], fault) : fault \in {"header", "rows"}}
        \cup {FaultyFile(LongFile, fault) : fault \in {"header", "rows", "tail"}}

\* what os.path.exists / shutil.copy2 find at the path
PathKind(p) == input_files[p].kind

os_path_exists(p) == PathKind(p) # "absent"

\* quality_score: left out (None) or given out of range
QualityInputs == {None, Some(101)}

\* values a CSV cell may hold
SampleValues ==
    {<<>>, <<" ">>, <<"1">>, <<"0">>, <<"-", "7">>, <<" ", "5", " ">>,
     <<"1", "_", "0">>, <<"1", ".", "5">>, <<"2", ".", "0">>, <<".", "5">>,
     <<"5", ".">>, <<"1", "e", "5">>, <<"1", ".", "5", "e", "3">>,
     <<"n", "a", "n">>, <<"t", "r", "u", "e">>, <<"F", "A", "L", "S", "E">>,
     <<"Y", "e", "s">>, <<"n", "o">>, <<" ", "t", "r", "u", "e">>, <<"x">>,
     <<"1", ".", "2", ".", "3">>, <<".">>}

\* values that fill the first rows of a long column
FillerValues == {<<>>, <<"t", "r", "u", "e">>, <<"x">>}

\* how many values a sampled column ends with after its filler rows
MaxTail == 2

\* n copies of a value
Repeat(value, n) == [i \in 1..n |-> value]

\* columns: filler rows up to just below, at and (with the tail) beyond the
\* sample size, or none, followed by up to MaxTail values
SampleColumns ==
    {Repeat(filler, n) \o tail :
        filler \in FillerValues,
        n \in {0, SampleRows - 1, SampleRows},
        tail \in UNION {[1..k -> SampleValues] : k \in 0..MaxTail}}

\* a CSV file with the single column "c"
OneColumnFile(column) ==
    CsvFile(<<"c">>, [i \in 1..Len(column) |-> <<column[i]>>])

\* quality_score at and around the ends of the accepted range
QualityBoundary == {None, Some(-1), Some(0), Some(100), Some(101)}

\* a plain file lying in the versions directory
PlainFile == [file |-> TRUE]

\* names of directories a versions directory may hold: versions far enough
\* apart for the numeric and the lexical order to differ, suffixes int() reads
\* (leading zero, sign, blank, underscore) and suffixes it rejects. No two of
\* them carry the same number.
DirectoryNames ==
    {<<"v", "1">>, <<"v", "2">>, <<"v", "9">>, <<"v", "1", "0">>,
     <<"v", "0", "7">>, <<"v", "-", "1">>, <<"v", " ", "3">>,
     <<"v", "1", "_", "1">>,
     <<"v", "x">>, <<"v">>, <<"t", "m", "p">>}

\* names of plain files a versions directory may hold
FileNames == {<<"v", "5">>, <<"v", ".", "t", "x", "t">>}

\* names a caller may pass as target_version; the last one never exists
Targets == {VersionName(n) : n \in 1..MaxVersions + 1}

----------------------------------------------------------------------------
(* utils.py *)

\* int(item[1:]) for every name of the model, None for ValueError
IntOfSuffix ==
    [item \in Targets \cup DirectoryNames \cup FileNames |->
        ParseInt(Tail1(item))]

\* os.path.isdir(os.path.join(versions_dir, item)) for a listed item
os_path_isdir(vd, item) == vd[item] # PlainFile

\* a variant that counts only the directories that hold a metadata file
VersionNumbers_complete(vd) ==
    {IntOfSuffix[item][1] :
        item \in {d \in DOMAIN vd : /\ StartsWithV(d)
                                     /\ os_path_isdir(vd, d)
                                     /\ IntOfSuffix[d] # None
                                     /\ vd[d].metadata # None}}

VersionNumbers(vd) ==
    {IntOfSuffix[item][1] :
        item \in {d \in DOMAIN vd : /\ StartsWithV(d)
                                     /\ os_path_isdir(vd, d)
                                     /\ IntOfSuffix[d] # None}}

MaxOf(S) == CHOOSE m \in S : \A k \in S : k <= m

\* a variant that fills the lowest free number
get_next_version_number_lowest_free(vd) ==
    LET existing_versions == VersionNumbers(vd)
    IN  CHOOSE n \in 1..(Cardinality(existing_versions) + 1) :
            /\ n \notin existing_versions
            /\ \A k \in 1..(n - 1) : k \in existing_versions

\* a variant that counts the directories
get_next_version_number_count(vd) == Cardinality(VersionNumbers(vd)) + 1

\* a variant that allocates the number after the current marker's
get_next_version_number_after_marker(vd) ==
    IF current_version_file = None THEN 1
    ELSE IntOfSuffix[current_version_file[1]][1] + 1

get_next_version_number(vd) ==
    LET existing_versions == VersionNumbers(vd)
    IN  IF existing_versions = {} THEN 1 ELSE MaxOf(existing_versions) + 1

\* os.makedirs(directory, exist_ok=True) on a sub-directory of versions_dir
ensure_directory(vd, name) ==
    IF name \in DOMAIN vd THEN vd
    ELSE [d \in DOMAIN vd \cup {name} |->
             IF d = name THEN [dataset |-> None, metadata |-> None] ELSE vd[d]]

\* a variant that makes the directory and writes no metadata file
save_metadata_skipped(vd, name, md) == ensure_directory(vd, name)

\* save_json(metadata, <versions_dir>/<name>/metadata.json)
save_metadata(vd, name, md) ==
    LET made == ensure_directory(vd, name)
    IN  [made EXCEPT ![name].metadata = Some(md)]

\* shutil.copy2(input_file, <versions_dir>/<name>/<basename>)
copy_dataset(vd, name, input_file) ==
    [vd EXCEPT ![name].dataset = Some(input_file)]

----------------------------------------------------------------------------
(* version_manager.py *)

\* a variant that rejects the two ends of the range
quality_score_valid_exclusive(quality_score) ==
    quality_score = None \/ (0 < quality_score[1] /\ quality_score[1] < 100)

quality_score_valid(quality_score) ==
    quality_score = None \/ (0 <= quality_score[1] /\ quality_score[1] <= 100)

\* a variant that counts the header among the rows
_analyze_csv_with_header(csv_file) ==
    [row_count |-> Len(csv_file.rows) + 1, columns |-> csv_file.header]

\* where reading the file as text raises (bytes that are not UTF-8, a field
\* the csv module refuses): "header" before the header is returned, "rows"
\* within the sampled rows, "tail" after them, "none" nowhere
ReadFault(csv_file) ==
    IF "fault" \in DOMAIN csv_file THEN csv_file.fault ELSE "none"

\* _analyze_csv: the number of data rows and the header row; an exception
\* leaves row_count and columns as they are when it is raised
_analyze_csv(csv_file) ==
    CASE ReadFault(csv_file) = "header" -> [row_count |-> 0, columns |-> <<>>]
      [] ReadFault(csv_file) \in {"rows", "tail"} ->
             [row_count |-> 0, columns |-> csv_file.header]
      [] OTHER -> [row_count |-> Len(csv_file.rows), columns |-> csv_file.header]

_is_integer(value) == ParseInt(value) # None

_is_float(value) == FloatParses(value) /\ "." \in Range(value)

_is_boolean(value) ==
    Lower(value) \in {<<"t", "r", "u", "e">>, <<"f", "a", "l", "s", "e">>,
                      <<"y", "e", "s">>, <<"n", "o">>, <<"1">>, <<"0">>}

\* the type one sampled value adds to types_found
ValueType(value) ==
    IF value = <<>> \/ Strip(value) = <<>> THEN "null"
    ELSE IF _is_integer(value) THEN "integer"
    ELSE IF _is_float(value) THEN "float"
    ELSE IF _is_boolean(value) THEN "boolean"
    ELSE "string"

\* a variant that prefers integer to float
column_type_integer_first(types_found) ==
    IF "integer" \in types_found THEN "integer"
    ELSE IF "float" \in types_found THEN "float"
    ELSE IF "boolean" \in types_found THEN "boolean"
    ELSE "string"

\* the type of a column given the types found among its sampled values
column_type(types_found) ==
    IF "float" \in types_found THEN "float"
    ELSE IF "integer" \in types_found THEN "integer"
    ELSE IF "boolean" \in types_found THEN "boolean"
    ELSE "string"

\* row[col] of csv.DictReader: a row shorter than the header has None there,
\* which counts as an empty value; of two columns with one name the later
\* one sets the value
ValueAt(csv_file, row, col) ==
    LET i == CHOOSE k \in 1..Len(csv_file.header) :
                 /\ csv_file.header[k] = col
                 /\ \A j \in (k + 1)..Len(csv_file.header) :
                        csv_file.header[j] # col
    IN  IF i <= Len(row) THEN row[i] ELSE <<>>

\* csv.DictReader skips the records of blank lines
NotBlank(row) == row # <<>>

\* a variant that returns an empty mapping when reading raises
_infer_data_types_no_default(csv_file, columns) ==
    LET rows == SelectSeq(csv_file.rows, NotBlank)
        n == IF Len(rows) < SampleRows THEN Len(rows) ELSE SampleRows
        sample_rows == SubSeq(rows, 1, n)
    IN  IF ReadFault(csv_file) \in {"header", "rows"}
        THEN << >>
        ELSE [col \in Range(columns) |->
                 column_type({ValueType(ValueAt(csv_file, row, col)) :
                                 row \in Range(sample_rows)})]

_infer_data_types(csv_file, columns) ==
    LET rows == SelectSeq(csv_file.rows, NotBlank)
        n == IF Len(rows) < SampleRows THEN Len(rows) ELSE SampleRows
        sample_rows == SubSeq(rows, 1, n)
    IN  IF ReadFault(csv_file) \in {"header", "rows"}
        THEN [col \in Range(columns) |-> "string"]
        ELSE [col \in Range(columns) |->
                 column_type({ValueType(ValueAt(csv_file, row, col)) :
                                 row \in Range(sample_rows)})]

\* the metadata options of the configuration are taken as switched on;
\* created_at, file_hash and file_size_bytes are left out
_generate_metadata(version_name, source_file, quality_score) ==
    LET csv_file == input_files[source_file]
        analysis == _analyze_csv(csv_file)
    IN  [version |-> version_name,
         source_file |-> source_file,
         row_count |-> analysis.row_count,
         columns |-> analysis.columns,
         column_count |-> Len(analysis.columns),
         data_types |-> _infer_data_types(csv_file, analysis.columns),
         quality_score |-> quality_score,
         backups |-> <<>>]

\* a variant that writes an index holding the new entry alone
_update_index_latest_only(idx, version_name, metadata) ==
    LET version_entry == [version |-> version_name,
                          row_count |-> metadata.row_count,
                          column_count |-> metadata.column_count,
                          quality_score |-> metadata.quality_score]
    IN  Some(<<version_entry>>)

\* a variant that puts the new entry first
_update_index_prepend(idx, version_name, metadata) ==
    LET versions == IF idx # None THEN idx[1] ELSE <<>>
        version_entry == [version |-> version_name,
                          row_count |-> metadata.row_count,
                          column_count |-> metadata.column_count,
                          quality_score |-> metadata.quality_score]
    IN  Some(<<version_entry>> \o versions)

\* the index after _update_index(version_name, metadata)
_update_index(idx, version_name, metadata) ==
    LET versions == IF idx # None THEN idx[1] ELSE <<>>
        version_entry == [version |-> version_name,
                          row_count |-> metadata.row_count,
                          column_count |-> metadata.column_count,
                          quality_score |-> metadata.quality_score]
    IN  Some(Append(versions, version_entry))

\* a variant that writes the number without its "v"
_set_current_version_number(version_name) == Some(Tail1(version_name))

\* a variant that leaves an existing marker file alone
_set_current_version_once(version_name) ==
    IF current_version_file = None THEN Some(version_name)
    ELSE current_version_file

\* the marker file after _set_current_version(version_name)
_set_current_version(version_name) == Some(version_name)

\* get_current_version on a given marker file
current_version_of(marker_file) ==
    IF marker_file = None THEN None
    ELSE Some(Strip(marker_file[1]))

get_current_version == current_version_of(current_version_file)

\* the characters of the names in the order str comparison gives them
CharOrder == <<" ", "-", ".", "0", "1", "2", "3", "4", "5", "6", "7", "8", "9",
               "_", "m", "p", "t", "v", "x">>

CharRank(c) == CHOOSE i \in 1..Len(CharOrder) : CharOrder[i] = c

\* the length of the longest name
MaxNameLen == MaxOf({Len(item) : item \in DirectoryNames \cup FileNames})

RECURSIVE Power(_, _)
Power(b, e) == IF e = 0 THEN 1 ELSE b * Power(b, e - 1)

\* a variant that sorts the names as text: the key grows as the name does in
\* str comparison
SortKey_lexical(x) ==
    LET Sum[i \in 0..Len(x)] ==
            IF i = 0 THEN 0
            ELSE Sum[i - 1]
                 + CharRank(x[i]) * Power(Len(CharOrder) + 1, MaxNameLen - i)
    IN  Sum[Len(x)]

\* int(x[1:]), the key of versions.sort(key=lambda x: int(x[1:]))
SortKey(x) == IntOfSuffix[x][1]

\* list.sort(key=...): the names are paired with their keys, the pairs taken
\* in ascending key order (names whose keys differ)
RECURSIVE SortPairs(_)
SortPairs(P) ==
    IF P = {} THEN <<>>
    ELSE LET p == CHOOSE q \in P : \A r \in P : q[1] <= r[1]
         IN  <<p[2]>> \o SortPairs(P \ {p})

SortByNumber(S) == SortPairs({<<SortKey(x), x>> : x \in S})

\* get_all_versions on a given versions directory
all_versions_of(vd) ==
    SortByNumber({item \in DOMAIN vd : /\ StartsWithV(item)
                                        /\ os_path_isdir(vd, item)
                                        /\ IntOfSuffix[item] # None})

get_all_versions == all_versions_of(versions_dir)

\* get_version_metadata: None stands for FileNotFoundError
get_version_metadata(version_name) ==
    IF version_name \notin DOMAIN versions_dir THEN None
    ELSE versions_dir[version_name].metadata

get_version_history == IF index_file # None THEN index_file[1] ELSE <<>>

CreateVersion(input_file, quality_score) ==
    IF ~os_path_exists(input_file) THEN
        /\ last' = [op |-> "create_version", arg |-> input_file,
                    result |-> "FileNotFoundError", ret |-> None]
        /\ UNCHANGED <<versions_dir, index_file, current_version_file,
                       rollback_log_file, returned,
                       removed_highest, rollbacks_done>>
    ELSE IF ~quality_score_valid(quality_score) THEN
        /\ last' = [op |-> "create_version", arg |-> input_file,
                    result |-> "ValueError", ret |-> None]
        /\ UNCHANGED <<versions_dir, index_file, current_version_file,
                       rollback_log_file, returned,
                       removed_highest, rollbacks_done>>
    ELSE
        LET version_number == get_next_version_number(versions_dir)
            version_name == VersionName(version_number)
            made == ensure_directory(versions_dir, version_name)
            metadata == _generate_metadata(version_name, input_file, quality_score)
        IN  /\ version_number <= MaxVersions
            /\ IF PathKind(input_file) = "directory" THEN
                   \* shutil.copy2 raises IsADirectoryError after the
                   \* version directory was made
                   /\ versions_dir' = made
                   /\ last' = [op |-> "create_version", arg |-> input_file,
                               result |-> "IsADirectoryError", ret |-> None]
                   /\ UNCHANGED <<index_file, current_version_file, returned>>
               ELSE
                   /\ Len(returned) < MaxCreates
                   /\ versions_dir' =
                          save_metadata(copy_dataset(made, version_name, input_file),
                                        version_name, metadata)
                   /\ index_file' = _update_index(index_file, version_name, metadata)
                   /\ current_version_file' = _set_current_version(version_name)
                   /\ last' = [op |-> "create_version", arg |-> input_file,
                               result |-> "ok", ret |-> Some(version_name)]
                   /\ returned' = Append(returned, version_number)
            /\ UNCHANGED <<rollback_log_file, removed_highest, rollbacks_done>>

----------------------------------------------------------------------------
(* create_version statement by statement, one call per process *)

\* a process that is not inside create_version
Idle == [pc |-> "idle", input_file |-> "", version_name |-> None, index |-> None]

\* a variant in which the index is updated before the metadata is written
create_version_next_index_first(pc) ==
    CASE pc = "mkdir" -> "copy"
      [] pc = "copy" -> "index_read"
      [] pc = "index_read" -> "index_write"
      [] pc = "index_write" -> "metadata"
      [] pc = "metadata" -> "marker"
      [] pc = "marker" -> "idle"

\* the statement that follows each statement of create_version
create_version_next(pc) ==
    CASE pc = "mkdir" -> "copy"
      [] pc = "copy" -> "metadata"
      [] pc = "metadata" -> "index_read"
      [] pc = "index_read" -> "index_write"
      [] pc = "index_write" -> "marker"
      [] pc = "marker" -> "idle"

\* a variant that keeps the entries found in the file at the time of writing
save_index_merge(on_disk, index) ==
    LET old == IF on_disk # None THEN on_disk[1] ELSE <<>>
        new == index[1]
        missing == SelectSeq(old, LAMBDA e : \A i \in 1..Len(new) : new[i] # e)
    IN  Some(missing \o new)

\* save_json(index, index_file): open(file_path, 'w') replaces what is there
save_index(on_disk, index) == index

Advance(p) == [procs EXCEPT ![p].pc = create_version_next(procs[p].pc)]

\* validation and get_next_version_number: the directory listing is read
Begin(p) ==
    /\ procs[p].pc = "idle"
    /\ LET input_file == "a.csv"
           version_number == get_next_version_number(versions_dir)
       IN  /\ os_path_exists(input_file)
           /\ version_number <= MaxVersions
           /\ Len(returned) < MaxCreates
           /\ procs' = [procs EXCEPT ![p] =
                           [pc |-> "mkdir", input_file |-> input_file,
                            version_name |-> Some(VersionName(version_number)),
                            index |-> None]]
    /\ UNCHANGED <<versions_dir, index_file, current_version_file,
                   rollback_log_file, last, returned, removed_highest,
                   rollbacks_done, input_files>>

MakeDirectory(p) ==
    /\ procs[p].pc = "mkdir"
    /\ versions_dir' = ensure_directory(versions_dir, procs[p].version_name[1])
    /\ procs' = Advance(p)
    /\ UNCHANGED <<index_file, current_version_file, rollback_log_file, last,
                   returned, removed_highest, rollbacks_done, input_files>>

CopyDataset(p) ==
    /\ procs[p].pc = "copy"
    /\ versions_dir' = copy_dataset(versions_dir, procs[p].version_name[1],
                                    procs[p].input_file)
    /\ procs' = Advance(p)
    /\ UNCHANGED <<index_file, current_version_file, rollback_log_file, last,
                   returned, removed_highest, rollbacks_done, input_files>>

WriteMetadata(p) ==
    /\ procs[p].pc = "metadata"
    /\ versions_dir' =
           save_metadata(versions_dir, procs[p].version_name[1],
                         _generate_metadata(procs[p].version_name[1],
                                            procs[p].input_file, None))
    /\ procs' = Advance(p)
    /\ UNCHANGED <<index_file, current_version_file, rollback_log_file, last,
                   returned, removed_highest, rollbacks_done, input_files>>

\* _update_index up to load_json: the process holds what it read
ReadIndex(p) ==
    /\ procs[p].pc = "index_read"
    /\ procs' = [Advance(p) EXCEPT ![p].index = index_file]
    /\ UNCHANGED <<versions_dir, index_file, current_version_file,
                   rollback_log_file, last, returned, removed_highest,
                   rollbacks_done, input_files>>

\* _update_index from the append to save_json
WriteIndex(p) ==
    /\ procs[p].pc = "index_write"
    /\ index_file' =
           save_index(index_file,
                      _update_index(procs[p].index, procs[p].version_name[1],
                                    _generate_metadata(procs[p].version_name[1],
                                                       procs[p].input_file, None)))
    /\ procs' = Advance(p)
    /\ UNCHANGED <<versions_dir, current_version_file, rollback_log_file, last,
                   returned, removed_highest, rollbacks_done, input_files>>

\* _set_current_version and return
SetMarker(p) ==
    /\ procs[p].pc = "marker"
    /\ current_version_file' = _set_current_version(procs[p].version_name[1])
    /\ last' = [op |-> "create_version", arg |-> procs[p].input_file,
                result |-> "ok", ret |-> procs[p].version_name]
    /\ returned' = Append(returned, IntOfSuffix[procs[p].version_name[1]][1])
    /\ procs' = [procs EXCEPT ![p] = Idle]
    /\ UNCHANGED <<versions_dir, index_file, rollback_log_file,
                   removed_highest, rollbacks_done, input_files>>

\* the process dies between two statements
Crash(p) ==
    /\ procs[p].pc # "idle"
    /\ procs' = [procs EXCEPT ![p] = Idle]
    /\ last' = [op |-> "create_version", arg |-> procs[p].input_file,
                result |-> "crashed", ret |-> None]
    /\ UNCHANGED <<versions_dir, index_file, current_version_file,
                   rollback_log_file, returned, removed_highest,
                   rollbacks_done, input_files>>

CreateStep(p) ==
    \/ Begin(p)
    \/ MakeDirectory(p)
    \/ CopyDataset(p)
    \/ WriteMetadata(p)
    \/ ReadIndex(p)
    \/ WriteIndex(p)
    \/ SetMarker(p)

----------------------------------------------------------------------------
(* rollback.py *)

get_rollback_history ==
    IF rollback_log_file # None THEN rollback_log_file[1] ELSE <<>>

\* a variant that annotates every version that has a metadata file
_create_rollback_backup_all(vd, version_name, raises) ==
    IF raises \/ version_name = None THEN vd
    ELSE [name \in DOMAIN vd |->
             IF vd[name].metadata # None
             THEN [vd[name] EXCEPT !.metadata =
                      Some([@[1] EXCEPT !.backups =
                               Append(@, [backed_up_version |-> version_name[1],
                                          reason |-> "Pre-rollback backup"])])]
             ELSE vd[name]]

\* a variant that writes the record back with its row count reset
_create_rollback_backup_recounted(vd, version_name, raises) ==
    IF raises \/ version_name = None THEN vd
    ELSE LET name == version_name[1]
             backup_info == [backed_up_version |-> name,
                             reason |-> "Pre-rollback backup"]
         IN  IF name \in DOMAIN vd /\ vd[name].metadata # None
             THEN [vd EXCEPT ![name].metadata =
                      Some([@[1] EXCEPT !.backups = Append(@, backup_info),
                                        !.row_count = 0])]
             ELSE vd

\* version_name is what get_current_version returned; None makes os.path.join
\* raise TypeError, which the handler swallows like every other exception
_create_rollback_backup(vd, version_name, raises) ==
    IF raises \/ version_name = None THEN vd
    ELSE LET name == version_name[1]
             backup_info == [backed_up_version |-> name,
                             reason |-> "Pre-rollback backup"]
         IN  IF name \in DOMAIN vd /\ vd[name].metadata # None
             THEN [vd EXCEPT ![name].metadata =
                      Some([@[1] EXCEPT !.backups = Append(@, backup_info)])]
             ELSE vd

\* a variant that puts the new event in front of the existing ones
_log_rollback_event_newest_first(log, from_version, to_version, raises) ==
    IF raises THEN log
    ELSE LET rollbacks == IF log # None THEN log[1] ELSE <<>>
             rollback_event == [from_version |-> from_version,
                                to_version |-> to_version]
         IN  Some(<<rollback_event>> \o rollbacks)

\* a variant that starts a fresh history instead of loading the existing one
_log_rollback_event_fresh(log, from_version, to_version, raises) ==
    IF raises THEN log
    ELSE Some(<<[from_version |-> from_version, to_version |-> to_version]>>)

_log_rollback_event(log, from_version, to_version, raises) ==
    IF raises THEN log
    ELSE LET rollbacks == IF log # None THEN log[1] ELSE <<>>
             rollback_event == [from_version |-> from_version,
                                to_version |-> to_version]
         IN  Some(Append(rollbacks, rollback_event))

\* a variant without the metadata check
is_safe_to_rollback_no_metadata_check(target_version) ==
    IF target_version \notin Range(get_all_versions)
    THEN [safe |-> FALSE, reason |-> "does not exist"]
    ELSE IF get_current_version = Some(target_version)
    THEN [safe |-> FALSE, reason |-> "Already at version"]
    ELSE [safe |-> TRUE, reason |-> "Safe to rollback"]

is_safe_to_rollback(target_version) ==
    IF target_version \notin Range(get_all_versions)
    THEN [safe |-> FALSE, reason |-> "does not exist"]
    ELSE IF get_current_version = Some(target_version)
    THEN [safe |-> FALSE, reason |-> "Already at version"]
    ELSE IF versions_dir[target_version].metadata = None
    THEN [safe |-> FALSE, reason |-> "Metadata file not found"]
    ELSE [safe |-> TRUE, reason |-> "Safe to rollback"]

\* a variant that does not look the target up
rollback_validation_no_lookup(target_version) ==
    IF get_current_version = Some(target_version) THEN "ValueError" ELSE "ok"

\* a variant that does not compare the target with the current version
rollback_validation_no_compare(target_version) ==
    LET all_versions == get_all_versions
    IN  IF \A i \in DOMAIN all_versions : all_versions[i] # target_version
        THEN "FileNotFoundError"
        ELSE "ok"

\* the checks rollback_to_version makes before it changes anything
\* a variant that also refuses a target whose metadata file is missing
rollback_validation_with_metadata(target_version) ==
    LET all_versions == get_all_versions
        current_version == get_current_version
    IN  IF \A i \in DOMAIN all_versions : all_versions[i] # target_version
        THEN "FileNotFoundError"
        ELSE IF current_version = Some(target_version)
        THEN "ValueError"
        ELSE IF versions_dir[target_version].metadata = None
        THEN "FileNotFoundError"
        ELSE "ok"

rollback_validation(target_version) ==
    LET all_versions == get_all_versions
        current_version == get_current_version
    IN  IF \A i \in DOMAIN all_versions : all_versions[i] # target_version
        THEN "FileNotFoundError"
        ELSE IF current_version = Some(target_version)
        THEN "ValueError"
        ELSE "ok"

\* a variant that repoints the marker only when the bookkeeping went through
rollback_steps_marker_guarded(target_version, do_backup, backup_raises, log_raises) ==
    LET current_version == get_current_version
    IN  [versions_dir |->
             IF do_backup
             THEN _create_rollback_backup(versions_dir, current_version,
                                          backup_raises)
             ELSE versions_dir,
         current_version_file |->
             IF backup_raises \/ log_raises THEN current_version_file
             ELSE _set_current_version(target_version),
         rollback_log_file |->
             _log_rollback_event(rollback_log_file, current_version,
                                 Some(target_version), log_raises)]

\* the three steps of a rollback that passed validation: the files after them
rollback_steps(target_version, do_backup, backup_raises, log_raises) ==
    LET current_version == get_current_version
    IN  [versions_dir |->
             IF do_backup
             THEN _create_rollback_backup(versions_dir, current_version,
                                          backup_raises)
             ELSE versions_dir,
         current_version_file |-> _set_current_version(target_version),
         rollback_log_file |->
             _log_rollback_event(rollback_log_file, current_version,
                                 Some(target_version), log_raises)]

\* create_backup: the caller's argument
\* backup_before_rollback: config['version_management']['backup_before_rollback']
\*   as the configuration file read by this invocation gives it
\* backup_raises, log_raises: an exception inside the try block of
\*   _create_rollback_backup, _log_rollback_event (a read or write that fails)
RollbackToVersion(target_version) ==
    LET checked == rollback_validation(target_version)
    IN  IF checked # "ok" THEN
            /\ last' = [op |-> "rollback_to_version", arg |-> target_version,
                        result |-> checked, ret |-> None]
            /\ UNCHANGED <<versions_dir, index_file, current_version_file,
                           rollback_log_file, returned,
                           removed_highest, rollbacks_done>>
        ELSE
            /\ rollbacks_done < MaxRollbacks
            /\ rollbacks_done' = rollbacks_done + 1
            /\ \E create_backup \in BOOLEAN, backup_before_rollback \in BOOLEAN,
                  backup_raises \in BOOLEAN, log_raises \in BOOLEAN :
                LET do_backup == create_backup /\ backup_before_rollback
                    after == rollback_steps(target_version, do_backup,
                                            backup_raises, log_raises)
                IN  /\ backup_raises => do_backup
                    /\ versions_dir' = after.versions_dir
                    /\ current_version_file' = after.current_version_file
                    /\ rollback_log_file' = after.rollback_log_file
                    /\ last' = [op |-> "rollback_to_version",
                                arg |-> target_version, result |-> "ok",
                                ret |-> <<do_backup, backup_raises, log_raises>>]
            /\ UNCHANGED <<index_file, returned, removed_highest>>

----------------------------------------------------------------------------
(* rollback_to_version statement by statement *)

\* a variant that appends the audit record before it repoints the marker
rollback_to_version_next_log_first(pc) ==
    CASE pc = "rollback_validate" -> "rollback_backup"
      [] pc = "rollback_backup" -> "rollback_log"
      [] pc = "rollback_log" -> "rollback_marker"
      [] pc = "rollback_marker" -> "idle"

\* the statement that follows each statement of rollback_to_version
rollback_to_version_next(pc) ==
    CASE pc = "rollback_validate" -> "rollback_backup"
      [] pc = "rollback_backup" -> "rollback_marker"
      [] pc = "rollback_marker" -> "rollback_log"
      [] pc = "rollback_log" -> "idle"

RollbackPcs == {"rollback_backup", "rollback_marker", "rollback_log"}

\* the statement is done: the process goes on to the next one or returns True
RollbackAdvance(p, locals) ==
    LET next == rollback_to_version_next(locals.pc)
    IN  IF next = "idle"
        THEN /\ procs' = [procs EXCEPT ![p] = Idle]
             /\ last' = [op |-> "rollback_to_version",
                         arg |-> locals.target_version, result |-> "ok",
                         ret |-> <<locals.do_backup, locals.backup_raises,
                                   locals.log_raises>>]
        ELSE /\ procs' = [procs EXCEPT ![p] = [locals EXCEPT !.pc = next]]
             /\ UNCHANGED last

\* the validation, get_current_version and the reading of the configuration;
\* rollbacks_done counts the calls that passed the validation
BeginRollback(p, target_version, create_backup, backup_before_rollback) ==
    /\ procs[p].pc = "idle"
    /\ LET checked == rollback_validation(target_version)
       IN  IF checked # "ok" THEN
               /\ last' = [op |-> "rollback_to_version", arg |-> target_version,
                           result |-> checked, ret |-> None]
               /\ UNCHANGED <<procs, rollbacks_done>>
           ELSE
               /\ rollbacks_done < MaxRollbacks
               /\ rollbacks_done' = rollbacks_done + 1
               /\ procs' = [procs EXCEPT ![p] =
                               [pc |-> rollback_to_version_next("rollback_validate"),
                                target_version |-> target_version,
                                current_version |-> get_current_version,
                                do_backup |-> create_backup /\ backup_before_rollback,
                                backup_raises |-> FALSE,
                                log_raises |-> FALSE]]
               /\ UNCHANGED last
    /\ UNCHANGED <<versions_dir, index_file, current_version_file,
                   rollback_log_file, returned, removed_highest, input_files>>

\* if create_backup and backup_before_rollback: _create_rollback_backup
BackupCurrent(p) ==
    /\ procs[p].pc = "rollback_backup"
    /\ \E raises \in BOOLEAN :
          /\ raises => procs[p].do_backup
          /\ versions_dir' =
                 IF procs[p].do_backup
                 THEN _create_rollback_backup(versions_dir,
                                              procs[p].current_version, raises)
                 ELSE versions_dir
          /\ RollbackAdvance(p, [procs[p] EXCEPT !.backup_raises = raises])
    /\ UNCHANGED <<index_file, current_version_file, rollback_log_file,
                   returned, removed_highest, rollbacks_done, input_files>>

\* self.version_manager._set_current_version(target_version)
RepointMarker(p) ==
    /\ procs[p].pc = "rollback_marker"
    /\ current_version_file' = _set_current_version(procs[p].target_version)
    /\ RollbackAdvance(p, procs[p])
    /\ UNCHANGED <<versions_dir, index_file, rollback_log_file, returned,
                   removed_highest, rollbacks_done, input_files>>

\* self._log_rollback_event(current_version, target_version)
AppendAudit(p) ==
    /\ procs[p].pc = "rollback_log"
    /\ \E raises \in BOOLEAN :
          /\ rollback_log_file' =
                 _log_rollback_event(rollback_log_file, procs[p].current_version,
                                     Some(procs[p].target_version), raises)
          /\ RollbackAdvance(p, [procs[p] EXCEPT !.log_raises = raises])
    /\ UNCHANGED <<versions_dir, index_file, current_version_file, returned,
                   removed_highest, rollbacks_done, input_files>>

\* the process dies between two statements of rollback_to_version
RollbackCrash(p) ==
    /\ procs[p].pc \in RollbackPcs
    /\ procs' = [procs EXCEPT ![p] = Idle]
    /\ last' = [op |-> "rollback_to_version", arg |-> procs[p].target_version,
                result |-> "crashed", ret |-> None]
    /\ UNCHANGED <<versions_dir, index_file, current_version_file,
                   rollback_log_file, returned, removed_highest,
                   rollbacks_done, input_files>>

RollbackStep(p) ==
    \/ \E target_version \in Targets, create_backup \in BOOLEAN,
          backup_before_rollback \in BOOLEAN :
           BeginRollback(p, target_version, create_backup, backup_before_rollback)
    \/ BackupCurrent(p)
    \/ RepointMarker(p)
    \/ AppendAudit(p)

----------------------------------------------------------------------------
(* comparison.py *)

\* the comparison section of the configuration, read on every call
ComparisonConfigs ==
    [compare_row_count : BOOLEAN, compare_columns : BOOLEAN,
     compare_data_types : BOOLEAN, include_sample_data : BOOLEAN,
     sample_size : {1}]

\* get_version_dataset_path: the CSV file in the version's directory, None
\* for FileNotFoundError (no directory, or no file ending in .csv in it)
get_version_dataset_path(version_name) ==
    IF version_name \notin DOMAIN versions_dir THEN None
    ELSE versions_dir[version_name].dataset

\* a variant that adds the two counts
_compare_row_counts_sum(metadata1, metadata2) ==
    LET row_count1 == metadata1.row_count
        row_count2 == metadata2.row_count
        difference == row_count2 + row_count1
    IN  [version1_row_count |-> row_count1,
         version2_row_count |-> row_count2,
         difference |-> difference,
         direction |-> IF difference > 0 THEN "increase"
                       ELSE IF difference < 0 THEN "decrease" ELSE "no change"]

\* percentage_change (a rounded float) is left out
_compare_row_counts(metadata1, metadata2) ==
    LET row_count1 == metadata1.row_count
        row_count2 == metadata2.row_count
        difference == row_count2 - row_count1
    IN  [version1_row_count |-> row_count1,
         version2_row_count |-> row_count2,
         difference |-> difference,
         direction |-> IF difference > 0 THEN "increase"
                       ELSE IF difference < 0 THEN "decrease" ELSE "no change"]

\* the lists built from sets are kept as sets: their order is not fixed
_compare_columns(metadata1, metadata2) ==
    LET columns1 == Range(metadata1.columns)
        columns2 == Range(metadata2.columns)
    IN  [version1_column_count |-> Cardinality(columns1),
         version2_column_count |-> Cardinality(columns2),
         added_columns |-> columns2 \ columns1,
         removed_columns |-> columns1 \ columns2,
         common_columns |-> columns1 \cap columns2,
         columns_added_count |-> Cardinality(columns2 \ columns1),
         columns_removed_count |-> Cardinality(columns1 \ columns2)]

_compare_data_types(metadata1, metadata2) ==
    LET types1 == metadata1.data_types
        types2 == metadata2.data_types
        changed == {column \in DOMAIN types1 :
                       column \in DOMAIN types2 /\ types1[column] # types2[column]}
    IN  [changed_columns |->
             [column \in changed |->
                 [version1_type |-> types1[column],
                  version2_type |-> types2[column]]],
         total_changes |-> Cardinality(changed)]

\* the first sample_size data rows of the dataset
_read_csv_sample(csv_path, sample_size) ==
    LET rows == input_files[csv_path].rows
    IN  SubSeq(rows, 1, IF Len(rows) < sample_size THEN Len(rows) ELSE sample_size)

_compare_sample_data(dataset_path1, dataset_path2, sample_size) ==
    [version1_sample |-> _read_csv_sample(dataset_path1, sample_size),
     version2_sample |-> _read_csv_sample(dataset_path2, sample_size),
     sample_size |-> sample_size]

\* a variant that counts added and removed columns as one difference
_generate_summary_columns_once(comparison) ==
    LET row_changes ==
            IF /\ comparison.row_count_comparison # None
               /\ comparison.row_count_comparison[1].difference # 0
            THEN <<<<"Row count changed by",
                     comparison.row_count_comparison[1].difference>>>>
            ELSE <<>>
        columns ==
            IF /\ comparison.column_comparison # None
               /\ \/ comparison.column_comparison[1].columns_added_count > 0
                  \/ comparison.column_comparison[1].columns_removed_count > 0
            THEN <<<<"columns added",
                     comparison.column_comparison[1].columns_added_count>>>>
            ELSE <<>>
        types ==
            IF /\ comparison.data_type_comparison # None
               /\ comparison.data_type_comparison[1].total_changes > 0
            THEN <<<<"data types changed",
                     comparison.data_type_comparison[1].total_changes>>>>
            ELSE <<>>
        key_changes == row_changes \o columns \o types
    IN  [total_differences |-> Len(key_changes),
         key_changes |-> IF Len(key_changes) = 0
                         THEN <<<<"No significant differences found">>>>
                         ELSE key_changes]

\* key_changes holds, for each message, its text and the number put into it
_generate_summary(comparison) ==
    LET row_changes ==
            IF /\ comparison.row_count_comparison # None
               /\ comparison.row_count_comparison[1].difference # 0
            THEN <<<<"Row count changed by",
                     comparison.row_count_comparison[1].difference>>>>
            ELSE <<>>
        added ==
            IF /\ comparison.column_comparison # None
               /\ comparison.column_comparison[1].columns_added_count > 0
            THEN <<<<"columns added",
                     comparison.column_comparison[1].columns_added_count>>>>
            ELSE <<>>
        removed ==
            IF /\ comparison.column_comparison # None
               /\ comparison.column_comparison[1].columns_removed_count > 0
            THEN <<<<"columns removed",
                     comparison.column_comparison[1].columns_removed_count>>>>
            ELSE <<>>
        types ==
            IF /\ comparison.data_type_comparison # None
               /\ comparison.data_type_comparison[1].total_changes > 0
            THEN <<<<"data types changed",
                     comparison.data_type_comparison[1].total_changes>>>>
            ELSE <<>>
        key_changes == row_changes \o added \o removed \o types
    IN  [total_differences |-> Len(key_changes),
         key_changes |-> IF Len(key_changes) = 0
                         THEN <<<<"No significant differences found">>>>
                         ELSE key_changes]

\* a variant that compares the data types only when it compares the columns
compare_versions_types_with_columns(version1, version2, config) ==
    LET metadata1 == get_version_metadata(version1)
        metadata2 == get_version_metadata(version2)
        dataset_path1 == get_version_dataset_path(version1)
        dataset_path2 == get_version_dataset_path(version2)
    IN  IF \/ metadata1 = None \/ metadata2 = None
           \/ dataset_path1 = None \/ dataset_path2 = None
        THEN None
        ELSE LET comparison ==
                     [version1 |-> version1,
                      version2 |-> version2,
                      row_count_comparison |->
                          IF config.compare_row_count
                          THEN Some(_compare_row_counts(metadata1[1], metadata2[1]))
                          ELSE None,
                      column_comparison |->
                          IF config.compare_columns
                          THEN Some(_compare_columns(metadata1[1], metadata2[1]))
                          ELSE None,
                      data_type_comparison |->
                          IF config.compare_data_types /\ config.compare_columns
                          THEN Some(_compare_data_types(metadata1[1], metadata2[1]))
                          ELSE None,
                      sample_data_comparison |->
                          IF config.include_sample_data
                          THEN Some(_compare_sample_data(dataset_path1[1],
                                                         dataset_path2[1],
                                                         config.sample_size))
                          ELSE None]
             IN  Some([report |-> comparison,
                       summary |-> _generate_summary(comparison)])

\* compare_versions: None stands for FileNotFoundError; a section the
\* configuration switches off is None in the report
compare_versions(version1, version2, config) ==
    LET metadata1 == get_version_metadata(version1)
        metadata2 == get_version_metadata(version2)
        dataset_path1 == get_version_dataset_path(version1)
        dataset_path2 == get_version_dataset_path(version2)
    IN  IF \/ metadata1 = None \/ metadata2 = None
           \/ dataset_path1 = None \/ dataset_path2 = None
        THEN None
        ELSE LET comparison ==
                     [version1 |-> version1,
                      version2 |-> version2,
                      row_count_comparison |->
                          IF config.compare_row_count
                          THEN Some(_compare_row_counts(metadata1[1], metadata2[1]))
                          ELSE None,
                      column_comparison |->
                          IF config.compare_columns
                          THEN Some(_compare_columns(metadata1[1], metadata2[1]))
                          ELSE None,
                      data_type_comparison |->
                          IF config.compare_data_types
                          THEN Some(_compare_data_types(metadata1[1], metadata2[1]))
                          ELSE None,
                      sample_data_comparison |->
                          IF config.include_sample_data
                          THEN Some(_compare_sample_data(dataset_path1[1],
                                                         dataset_path2[1],
                                                         config.sample_size))
                          ELSE None]
             IN  Some([report |-> comparison,
                       summary |-> _generate_summary(comparison)])

\* a variant that notes the comparison in the first version's metadata
store_after_compare_noted(vd, version1, version2) ==
    IF version1 \in DOMAIN vd /\ vd[version1].metadata # None
    THEN [vd EXCEPT ![version1].metadata =
             Some([@[1] EXCEPT !.backups = Append(@, [backed_up_version |-> version2])])]
    ELSE vd

\* the versions directory after compare_versions: none of its statements
\* writes to it
store_after_compare(vd, version1, version2) == vd

CompareVersions(version1, version2, config) ==
    /\ versions_dir' = store_after_compare(versions_dir, version1, version2)
    /\ last' = [op |-> "compare_versions", arg |-> <<version1, version2>>,
                result |-> IF compare_versions(version1, version2, config) = None
                           THEN "FileNotFoundError" ELSE "ok",
                ret |-> None]
    /\ UNCHANGED <<index_file, current_version_file, rollback_log_file,
                   returned, removed_highest, rollbacks_done>>

----------------------------------------------------------------------------
(* The environment: an operator removes a version directory by hand *)

ManualRemove(name) ==
    /\ name \in DOMAIN versions_dir
    /\ versions_dir' = [d \in DOMAIN versions_dir \ {name} |-> versions_dir[d]]
    /\ removed_highest' =
           (removed_highest \/
            IntOfSuffix[name][1] = MaxOf(VersionNumbers(versions_dir)))
    /\ last' = [op |-> "manual_remove", arg |-> name, result |-> "ok",
                ret |-> None]
    /\ UNCHANGED <<index_file, current_version_file, rollback_log_file,
                   returned, rollbacks_done>>

----------------------------------------------------------------------------
(* Specifications *)

Procs == {"p1", "p2"}

Init ==
    /\ input_files = DiskFiles
    /\ procs = [p \in Procs |-> Idle]
    /\ versions_dir = << >>
    /\ index_file = None
    /\ current_version_file = None
    /\ rollback_log_file = None
    /\ last = [op |-> "init", arg |-> "", result |-> "ok", ret |-> None]
    /\ returned = <<>>
    /\ removed_highest = FALSE
    /\ rollbacks_done = 0

Create == \E input_file \in InputPaths, quality_score \in QualityInputs :
              /\ CreateVersion(input_file, quality_score)
              /\ UNCHANGED <<input_files, procs>>

Rollback == \E target_version \in Targets :
                /\ RollbackToVersion(target_version)
                /\ UNCHANGED <<input_files, procs>>

Remove == \E name \in Targets :
              /\ ManualRemove(name)
              /\ UNCHANGED <<input_files, procs>>

\* the store is empty and "a.csv" holds one sampled column
InitInfer ==
    /\ \E column \in SampleColumns :
          input_files = [DiskFiles EXCEPT !["a.csv"] = OneColumnFile(column)]
    /\ procs = [p \in Procs |-> Idle]
    /\ versions_dir = << >>
    /\ index_file = None
    /\ current_version_file = None
    /\ rollback_log_file = None
    /\ last = [op |-> "init", arg |-> "", result |-> "ok", ret |-> None]
    /\ returned = <<>>
    /\ removed_highest = FALSE
    /\ rollbacks_done = 0

\* the Metadata Extractor run on a file
InferDataTypes(path) ==
    /\ last.op = "init"
    /\ last' = [op |-> "_infer_data_types", arg |-> path, result |-> "ok",
                ret |-> _infer_data_types(input_files[path],
                                          _analyze_csv(input_files[path]).columns)]
    /\ UNCHANGED <<versions_dir, index_file, current_version_file,
                   rollback_log_file, returned, removed_highest,
                   rollbacks_done, input_files, procs>>

SpecInfer == InitInfer /\ [][InferDataTypes("a.csv")]_vars

\* the versions directory holds any of the directories and plain files
InitList ==
    /\ \E dirs \in SUBSET DirectoryNames, files \in SUBSET FileNames :
          versions_dir =
              [item \in dirs \cup files |->
                  IF item \in files THEN PlainFile
                  ELSE [dataset |-> None, metadata |-> None]]
    /\ input_files = DiskFiles
    /\ procs = [p \in Procs |-> Idle]
    /\ index_file = None
    /\ current_version_file = None
    /\ rollback_log_file = None
    /\ last = [op |-> "init", arg |-> "", result |-> "ok", ret |-> None]
    /\ returned = <<>>
    /\ removed_highest = FALSE
    /\ rollbacks_done = 0

\* get_all_versions called on the directory
GetAllVersions ==
    /\ last.op = "init"
    /\ last' = [op |-> "get_all_versions", arg |-> "", result |-> "ok",
                ret |-> get_all_versions]
    /\ UNCHANGED <<versions_dir, index_file, current_version_file,
                   rollback_log_file, returned, removed_highest,
                   rollbacks_done, input_files, procs>>

SpecList == InitList /\ [][GetAllVersions]_vars

\* the store is empty and "a.csv" holds any of the texts
InitText ==
    /\ \E text \in CsvTexts :
          input_files = [DiskFiles EXCEPT !["a.csv"] = CsvText(text)]
    /\ procs = [p \in Procs |-> Idle]
    /\ versions_dir = << >>
    /\ index_file = None
    /\ current_version_file = None
    /\ rollback_log_file = None
    /\ last = [op |-> "init", arg |-> "", result |-> "ok", ret |-> None]
    /\ returned = <<>>
    /\ removed_highest = FALSE
    /\ rollbacks_done = 0

\* create_version called with quality scores around the ends of the range
CreateAny == \E input_file \in InputPaths, quality_score \in QualityBoundary :
                 /\ CreateVersion(input_file, quality_score)
                 /\ UNCHANGED <<input_files, procs>>

\* names a caller passes to compare_versions: the two oldest versions and
\* one that never exists
CompareTargets == {VersionName(1), VersionName(2), VersionName(MaxVersions + 1)}

\* the configurations compare_versions is run under: every section switched
\* on, every section switched off
ComparisonSwitches ==
    {config \in ComparisonConfigs :
        /\ config.compare_columns = config.compare_row_count
        /\ config.compare_data_types = config.compare_row_count
        /\ config.include_sample_data = config.compare_row_count}

Compare == \E version1 \in CompareTargets, version2 \in CompareTargets,
              config \in ComparisonSwitches :
               /\ CompareVersions(version1, version2, config)
               /\ UNCHANGED <<input_files, procs>>

Next == Create \/ Rollback

Spec == Init /\ [][Next]_vars

SpecCreate == Init /\ [][CreateAny]_vars

\* one process at a time, which may die between two statements
NextSteps == CreateStep("p1") \/ Crash("p1")

SpecSteps == Init /\ [][NextSteps]_vars

\* two processes, their statements interleaved
NextConc == \E p \in Procs : CreateStep(p)

SpecConc == Init /\ [][NextConc]_vars

\* create_version on either CSV file, without a quality score
CreateEither == \E input_file \in {"a.csv", "b.csv"} :
                    /\ CreateVersion(input_file, None)
                    /\ UNCHANGED <<input_files, procs>>

\* compare_versions on any two names, under every configuration
CompareAny == \E version1 \in Targets, version2 \in Targets,
                 config \in ComparisonConfigs :
                  /\ CompareVersions(version1, version2, config)
                  /\ UNCHANGED <<input_files, procs>>

\* versions of two different datasets, compared
NextCompare == CreateEither \/ CompareAny

SpecCompare == Init /\ [][NextCompare]_vars

\* create_version on a CSV file, without a quality score
CreateDataset == /\ CreateVersion("a.csv", None)
                 /\ UNCHANGED <<input_files, procs>>

\* the store is empty and "b.csv" holds any of the files to compare
InitCompared ==
    /\ \E csv_file \in ComparedFiles :
          input_files = [DiskFiles EXCEPT !["b.csv"] = csv_file]
    /\ procs = [p \in Procs |-> Idle]
    /\ versions_dir = << >>
    /\ index_file = None
    /\ current_version_file = None
    /\ rollback_log_file = None
    /\ last = [op |-> "init", arg |-> "", result |-> "ok", ret |-> None]
    /\ returned = <<>>
    /\ removed_highest = FALSE
    /\ rollbacks_done = 0

\* versions of "a.csv" and of a file that differs from it, compared
SpecCompared == InitCompared /\ [][CreateEither \/ Compare]_vars

\* the store is empty and "a.csv" is one of the files read with or without
\* error
InitDegraded ==
    /\ \E csv_file \in DegradedFiles :
          input_files = [DiskFiles EXCEPT !["a.csv"] = csv_file]
    /\ procs = [p \in Procs |-> Idle]
    /\ versions_dir = << >>
    /\ index_file = None
    /\ current_version_file = None
    /\ rollback_log_file = None
    /\ last = [op |-> "init", arg |-> "", result |-> "ok", ret |-> None]
    /\ returned = <<>>
    /\ removed_highest = FALSE
    /\ rollbacks_done = 0

\* create_version on files whose analysis may raise
SpecDegraded == InitDegraded /\ [][CreateAny]_vars

\* create_version between two calls of rollback_to_version
CreateWhenIdle == procs["p1"].pc = "idle" /\ CreateDataset

\* one process: create_version, and rollback_to_version statement by
\* statement, which may die between two statements
NextRollbackSteps == CreateWhenIdle \/ RollbackStep("p1") \/ RollbackCrash("p1")

SpecRollbackSteps == Init /\ [][NextRollbackSteps]_vars

\* create_version on a file holding any text
SpecText == InitText /\ [][CreateDataset]_vars

\* every operation of the system
NextAll == CreateDataset \/ Rollback \/ Compare

SpecAll == Init /\ [][NextAll]_vars

\* a create_version whose input path is a directory: shutil.copy2 raises
\* after the version directory was made
FailedCopy ==
    /\ procs["p1"].pc = "idle"
    /\ CreateVersion("adir", None)
    /\ UNCHANGED <<input_files, procs>>

\* rollback_to_version(target_version, create_backup=False) with no fault in
\* _log_rollback_event, called while no create_version is running
RollbackWithoutBackup ==
    /\ procs["p1"].pc = "idle"
    /\ \E target_version \in Targets :
          LET checked == rollback_validation(target_version)
              after == rollback_steps(target_version, FALSE, FALSE, FALSE)
          IN  IF checked # "ok" THEN
                  /\ last' = [op |-> "rollback_to_version",
                              arg |-> target_version,
                              result |-> checked, ret |-> None]
                  /\ UNCHANGED <<versions_dir, current_version_file,
                                 rollback_log_file, rollbacks_done>>
              ELSE
                  /\ rollbacks_done < MaxRollbacks
                  /\ rollbacks_done' = rollbacks_done + 1
                  /\ versions_dir' = after.versions_dir
                  /\ current_version_file' = after.current_version_file
                  /\ rollback_log_file' = after.rollback_log_file
                  /\ last' = [op |-> "rollback_to_version",
                              arg |-> target_version, result |-> "ok",
                              ret |-> <<FALSE, FALSE, FALSE>>]
    /\ UNCHANGED <<index_file, returned, removed_highest, input_files, procs>>

\* create_version statement by statement with a crash between any two
\* statements, create_version calls whose copy fails, and rollbacks
NextPartial ==
    CreateStep("p1") \/ Crash("p1") \/ FailedCopy \/ RollbackWithoutBackup

SpecPartial == Init /\ [][NextPartial]_vars

NextEnv == Create \/ Remove

SpecEnv == Init /\ [][NextEnv]_vars

----------------------------------------------------------------------------
(* Properties *)

StrictlyIncreasing(seq) ==
    \A i \in 1..Len(seq) : \A j \in 1..Len(seq) : i < j => seq[i] < seq[j]

\* the names of the index entries, in order
IndexVersions == [i \in 1..Len(get_version_history) |-> get_version_history[i].version]

\* C1 as stated: over create_version calls interleaved with manual removals,
\* the identifiers returned are strictly increasing, start at 1 and none is
\* returned twice.
C1_ReturnedNeverReused ==
    /\ Len(returned) > 0 => returned[1] = 1
    /\ StrictlyIncreasing(returned)

\* C1 amended: as long as no manual removal has taken the highest-numbered
\* version directory, the identifiers returned are strictly increasing
\* positive integers and none is returned twice (the first is above 1 when an
\* earlier create_version failed after making its directory).
C1_ReturnedIncreasingWhileHighestKept ==
    ~removed_highest =>
        /\ \A i \in 1..Len(returned) : returned[i] >= i
        /\ StrictlyIncreasing(returned)

\* a removal left a gap below the highest directory and three ids were returned
C1_Witness ==
    /\ ~removed_highest
    /\ returned = <<1, 2, 3>>
    /\ VersionName(1) \notin DOMAIN versions_dir
    /\ VersionName(3) \in DOMAIN versions_dir

\* C2: the index entries are in creation order (the i-th entry is the i-th
\* version create_version returned) and their identifiers are pairwise
\* distinct and strictly increasing from first to last.
C2_IndexInCreationOrder ==
    /\ IndexVersions = [i \in 1..Len(returned) |-> VersionName(returned[i])]
    /\ StrictlyIncreasing([i \in 1..Len(IndexVersions) |->
                              IntOfSuffix[IndexVersions[i]][1]])

\* two entries around an identifier that a failed create_version used up
C2_Witness ==
    /\ IndexVersions = <<VersionName(1), VersionName(3)>>
    /\ rollbacks_done > 0

\* the marker is unset only while no version has been created, else it names
\* an existing version
MarkerStateOf(vd, marker_file, ids) ==
    LET current == current_version_of(marker_file)
    IN  IF current = None THEN ids = <<>>
        ELSE current[1] \in Range(all_versions_of(vd))

MarkerState == MarkerStateOf(versions_dir, current_version_file, returned)

\* C3: MarkerState holds in the initial state and after every step, and the
\* marker changes only in a successful create_version (to the version
\* returned) or a successful rollback_to_version (to the target, which was
\* in get_all_versions() when the call was made).
C3_MarkerStateMachine ==
    /\ MarkerState
    /\ [][/\ MarkerStateOf(versions_dir', current_version_file', returned')
          /\ current_version_file' # current_version_file =>
                /\ last'.result = "ok"
                /\ \/ /\ last'.op = "create_version"
                      /\ current_version_of(current_version_file') = last'.ret
                   \/ /\ last'.op = "rollback_to_version"
                      /\ current_version_of(current_version_file') = Some(last'.arg)
                      /\ last'.arg \in Range(get_all_versions)]_vars

\* the marker was rolled back to a version below the highest one
C3_Witness ==
    /\ last.op = "rollback_to_version"
    /\ last.result = "ok"
    /\ get_current_version = Some(VersionName(1))
    /\ Len(get_all_versions) = 3

IsRollbackStep == last'.op = "rollback_to_version"

RollbackSucceeded == last'.op = "rollback_to_version" /\ last'.result = "ok"

CreateSucceeded == last'.op = "create_version" /\ last'.result = "ok"

\* C4: a rollback_to_version(target) whose target exists and differs from the
\* current version succeeds and leaves the marker equal to target, whether or
\* not the backup-annotation step or the audit-log step failed.
C4_MarkerEqualsTargetAfterRollback ==
    [][(/\ IsRollbackStep
        /\ last'.arg \in Range(get_all_versions)
        /\ get_current_version # Some(last'.arg))
       => /\ last'.result = "ok"
          /\ get_current_version' = Some(last'.arg)]_vars

\* a rollback whose backup step and audit step both failed
C4_Witness ==
    /\ last.op = "rollback_to_version"
    /\ last.result = "ok"
    /\ last.ret = <<TRUE, TRUE, TRUE>>
    /\ get_current_version = Some(last.arg)

\* C5: rollback_to_version with a target that is not an existing version fails
\* with not-found and leaves the marker, every metadata file and the rollback
\* history as they were.
C5_UnknownTargetRejected ==
    [][(IsRollbackStep /\ last'.arg \notin Range(get_all_versions))
       => /\ last'.result = "FileNotFoundError"
          /\ UNCHANGED <<current_version_file, versions_dir, rollback_log_file>>]_vars

\* an unknown target was refused while versions and a marker exist
C5_Witness ==
    /\ last.op = "rollback_to_version"
    /\ last.result = "FileNotFoundError"
    /\ Len(get_all_versions) >= 2
    /\ get_current_version # None

\* C6: rollback_to_version with the current version as target fails with the
\* "Already at version" validation error and leaves the marker, every
\* version's metadata, the index and the rollback history as they were.
C6_CurrentTargetRejected ==
    [][(IsRollbackStep /\ get_current_version = Some(last'.arg))
       => /\ last'.result = "ValueError"
          /\ UNCHANGED <<current_version_file, versions_dir, index_file,
                         rollback_log_file>>]_vars

\* the current version was refused as target after an earlier rollback
C6_Witness ==
    /\ last.op = "rollback_to_version"
    /\ last.result = "ValueError"
    /\ get_current_version = Some(last.arg)
    /\ Len(get_rollback_history) >= 1

HasMetadata(version) ==
    /\ version # None
    /\ version[1] \in DOMAIN versions_dir
    /\ versions_dir[version[1]].metadata # None

BackupsOf(vd, name) == vd[name].metadata[1].backups

\* the rollback event of the step from the current version to the target
ThisRollbackEvent ==
    [from_version |-> get_current_version, to_version |-> Some(last'.arg)]

\* the metadata of the version being left gained one backup annotation naming
\* it, and nothing else in the versions directory changed
AnnotatedCurrentVersion ==
    LET a == get_current_version[1]
    IN  versions_dir' =
            [versions_dir EXCEPT ![a].metadata =
                Some([@[1] EXCEPT !.backups =
                         Append(@, [backed_up_version |-> a,
                                    reason |-> "Pre-rollback backup"])])]

C8_CreatedVersionIsCurrent ==
    [][CreateSucceeded =>
          /\ last'.ret # None
          /\ get_current_version' = last'.ret
          /\ DOMAIN versions_dir' = DOMAIN versions_dir \cup {last'.ret[1]}
          /\ last'.ret[1] \notin DOMAIN versions_dir]_vars

\* the only rollback went from v2 to v1, and then v3 was created
C8_Witness ==
    /\ last.op = "create_version"
    /\ last.result = "ok"
    /\ returned = <<1, 2, 3>>
    /\ rollbacks_done = 1
    /\ get_rollback_history =
           <<[from_version |-> Some(VersionName(2)),
              to_version |-> Some(VersionName(1))]>>
    /\ get_current_version = Some(VersionName(3))

\* the numbers n for which a directory v<n> exists
ExistingNumbers ==
    {n \in 0..(MaxVersions + 1) : VersionName(n) \in DOMAIN versions_dir}

ExpectedNextNumber ==
    IF ExistingNumbers = {} THEN 1
    ELSE (CHOOSE m \in ExistingNumbers : \A k \in ExistingNumbers : k <= m) + 1

\* a versions directory holding v1 and v3
DirsV1V3 ==
    [d \in {VersionName(1), VersionName(3)} |-> [dataset |-> None, metadata |-> None]]

\* C9: create_version allocates 1 + the highest numeric suffix among the
\* existing version directories, or 1 when there is none; with v1 and v3
\* present that is 4, not the count plus one.
C9_NextIsMaxPlusOne ==
    /\ get_next_version_number(DirsV1V3) = 4
    /\ [][(last'.op = "create_version" /\ last'.result \in {"ok", "IsADirectoryError"})
          => /\ DOMAIN versions_dir' =
                    DOMAIN versions_dir \cup {VersionName(ExpectedNextNumber)}
             /\ last'.result = "ok" =>
                    last'.ret = Some(VersionName(ExpectedNextNumber))]_vars

\* v3 was allocated while v2 was the only directory
C9_Witness ==
    /\ last.op = "create_version"
    /\ last.result = "ok"
    /\ last.ret = Some(VersionName(3))
    /\ DOMAIN versions_dir = {VersionName(2), VersionName(3)}

\* C10: is_safe_to_rollback(target) answers unsafe exactly when target is not a
\* known version, or is the current version, or has no metadata file.
C10_SafeToRollback ==
    \A t \in Targets :
        is_safe_to_rollback(t).safe =
            ~ \/ t \notin Range(get_all_versions)
              \/ get_current_version = Some(t)
              \/ get_version_metadata(t) = None

\* one state with a safe target and a target of each unsafe kind
C10_Witness ==
    \E t1 \in Targets, t2 \in Targets, t3 \in Targets, t4 \in Targets :
        /\ is_safe_to_rollback(t1).safe
        /\ t2 \notin Range(get_all_versions)
        /\ get_current_version = Some(t3)
        /\ t4 \in Range(get_all_versions)
        /\ get_current_version # Some(t4)
        /\ get_version_metadata(t4) = None
        /\ ~is_safe_to_rollback(t4).safe

----------------------------------------------------------------------------
(* create_version: validation *)

\* the persisted state of the store
store == <<versions_dir, index_file, current_version_file, rollback_log_file>>

\* C11: a create_version call on a path where nothing exists ends in
\* FileNotFoundError, a call on an existing path with a quality score below 0
\* or above 100 ends in ValueError, both with the store unchanged; every other
\* call (quality score left out, 0, 100) ends in neither error.
C11_CreateValidation ==
    [][\A input_file \in InputPaths, quality_score \in QualityBoundary :
          CreateVersion(input_file, quality_score) =>
              IF input_files[input_file].kind = "absent"
              THEN last'.result = "FileNotFoundError" /\ UNCHANGED store
              ELSE IF /\ quality_score # None
                      /\ (quality_score[1] < 0 \/ quality_score[1] > 100)
              THEN last'.result = "ValueError" /\ UNCHANGED store
              ELSE last'.result \notin {"FileNotFoundError", "ValueError"}]_vars

\* versions created with scores 0 and 100 exist when a call is turned down
\* for its score
C11_Witness ==
    /\ last.op = "create_version"
    /\ last.result = "ValueError"
    /\ \E a, b \in DOMAIN versions_dir :
          /\ versions_dir[a].metadata # None
          /\ versions_dir[b].metadata # None
          /\ versions_dir[a].metadata[1].quality_score = Some(0)
          /\ versions_dir[b].metadata[1].quality_score = Some(100)

----------------------------------------------------------------------------
(* create_version: the order of its writes *)

InIndex(name) == \E i \in 1..Len(IndexVersions) : IndexVersions[i] = name

HasDataset(name) ==
    name \in DOMAIN versions_dir /\ versions_dir[name].dataset # None

\* C12: between any two statements of create_version, also after the process
\* died there, a version named by the marker has its index entry, a version
\* with an index entry has its metadata file, and a version with a metadata
\* file has its dataset copy.
C12_WritesInOrder ==
    \A name \in Targets :
        /\ get_current_version = Some(name) => InIndex(name)
        /\ InIndex(name) => HasMetadata(Some(name))
        /\ HasMetadata(Some(name)) => HasDataset(name)

\* partial state of each kind: a copy without metadata, metadata without an
\* index entry, and an index entry while the marker is still unset
C12_Witness ==
    /\ HasDataset(VersionName(1)) /\ ~HasMetadata(Some(VersionName(1)))
    /\ HasMetadata(Some(VersionName(2))) /\ ~InIndex(VersionName(2))
    /\ InIndex(VersionName(3)) /\ get_current_version = None

----------------------------------------------------------------------------
(* create_version in two processes *)

\* the version names in an index as a process read or wrote it
NamesIn(index) ==
    IF index = None THEN <<>>
    ELSE [i \in 1..Len(index[1]) |-> index[1][i].version]

Allocates(p) == procs[p].pc = "idle" /\ procs'[p].pc = "mkdir"

WritesIndex(p) == procs[p].pc = "index_write" /\ procs'[p].pc = "marker"

\* C13: nothing excludes one create_version from another. A process allocates
\* 1 + the highest directory number it finds, whatever identifier the other
\* process holds, and the index it writes is the index it read plus its own
\* entry, whatever was written to the file in between (last writer wins).
C13_LastWriterWins ==
    [][\A p \in Procs :
          /\ Allocates(p) =>
                procs'[p].version_name = Some(VersionName(ExpectedNextNumber))
          /\ WritesIndex(p) =>
                NamesIn(index_file') =
                    Append(NamesIn(procs[p].index), procs[p].version_name[1])]_vars

\* a create_version that returned v1 has no entry in the index, which the
\* other process overwrote, and both processes now hold the same identifier
C13_Witness ==
    /\ returned = <<1, 2>>
    /\ ~InIndex(VersionName(1))
    /\ procs["p1"].pc # "idle"
    /\ procs["p2"].pc # "idle"
    /\ procs["p1"].version_name = procs["p2"].version_name

----------------------------------------------------------------------------
(* Type inference *)

\* the sampled values written out by shape: what parses as a number and has
\* a decimal point, what parses as a whole number, what is one of
\* true, false, yes, no, 1, 0 in any letter case
FloatShaped ==
    {<<"1", ".", "5">>, <<"2", ".", "0">>, <<".", "5">>, <<"5", ".">>,
     <<"1", ".", "5", "e", "3">>}

IntegerShaped ==
    {<<"1">>, <<"0">>, <<"-", "7">>, <<" ", "5", " ">>, <<"1", "_", "0">>}

BooleanShaped ==
    {<<"t", "r", "u", "e">>, <<"F", "A", "L", "S", "E">>, <<"Y", "e", "s">>,
     <<"n", "o">>, <<"1">>, <<"0">>}

\* the values of column "c" in the first 100 data rows of "a.csv"
SampledValues ==
    LET rows == input_files["a.csv"].rows
    IN  {rows[i][1] : i \in {k \in 1..Len(rows) : k <= 100}}

ExpectedType ==
    IF SampledValues \cap FloatShaped # {} THEN "float"
    ELSE IF SampledValues \cap IntegerShaped # {} THEN "integer"
    ELSE IF SampledValues \cap BooleanShaped # {} THEN "boolean"
    ELSE "string"

----------------------------------------------------------------------------
(* compare_versions *)

\* C14: a compare_versions call, whether it returns a report or raises,
\* leaves the version directories with their datasets and metadata, the
\* index, the marker and the rollback log as they were.
C14_CompareReadOnly ==
    [][last'.op = "compare_versions" =>
          /\ versions_dir' = versions_dir
          /\ index_file' = index_file
          /\ current_version_file' = current_version_file
          /\ rollback_log_file' = rollback_log_file]_vars

\* a comparison of two versions returned its report over a store that holds
\* backup annotations and a rollback log
C14_Witness ==
    /\ last.op = "compare_versions"
    /\ last.result = "ok"
    /\ last.arg[1] # last.arg[2]
    /\ rollback_log_file # None
    /\ \E name \in DOMAIN versions_dir :
          /\ versions_dir[name].metadata # None
          /\ Len(versions_dir[name].metadata[1].backups) > 0

----------------------------------------------------------------------------
(* The version record *)

\* the fields of a metadata record other than its backups list
CoreFields(metadata) ==
    [field \in DOMAIN metadata \ {"backups"} |-> metadata[field]]

IsPrefix(s, t) == Len(s) <= Len(t) /\ SubSeq(t, 1, Len(s)) = s

\* the version directories that hold a metadata file
WithMetadata(vd) == {name \in DOMAIN vd : vd[name].metadata # None}

\* C15: in every step of create_version, rollback_to_version and
\* compare_versions, every version directory is still there afterwards, and
\* every metadata file written before the step is still there with the same
\* core fields and a backups list that extends the one it had.
C15_MetadataCoreImmutable ==
    [][/\ DOMAIN versions_dir \subseteq DOMAIN versions_dir'
       /\ \A name \in WithMetadata(versions_dir) :
             /\ versions_dir'[name].metadata # None
             /\ CoreFields(versions_dir'[name].metadata[1]) =
                    CoreFields(versions_dir[name].metadata[1])
             /\ IsPrefix(versions_dir[name].metadata[1].backups,
                         versions_dir'[name].metadata[1].backups)]_vars

\* v1 and v2 each carry a backup annotation after later creates, rollbacks
\* and a comparison, and v1 still has the row count create_version gave it
C15_Witness ==
    /\ last.op = "compare_versions"
    /\ Len(returned) = 3
    /\ {VersionName(1), VersionName(2)} \subseteq WithMetadata(versions_dir)
    /\ Len(versions_dir[VersionName(1)].metadata[1].backups) = 1
    /\ Len(versions_dir[VersionName(2)].metadata[1].backups) = 1
    /\ versions_dir[VersionName(1)].metadata[1].row_count = 2

----------------------------------------------------------------------------
(* The index and the rollback log over time *)

\* the entries of an index file, none when the file does not exist
EntriesIn(index) == IF index = None THEN <<>> ELSE index[1]

\* C16: the index starts empty; every step of create_version and
\* rollback_to_version leaves the entries it held as a prefix of the entries
\* it holds afterwards; a create_version that returns adds one entry, for the
\* version it returns, and nothing else adds any; so the index holds as many
\* entries as create_version calls have returned.
C16_IndexAppendOnly ==
    /\ Len(EntriesIn(index_file)) = Len(returned)
    /\ [][/\ IsPrefix(EntriesIn(index_file), EntriesIn(index_file'))
          /\ Len(EntriesIn(index_file')) = Len(returned')
          /\ IF Len(returned') = Len(returned) + 1
             THEN /\ Len(EntriesIn(index_file')) = Len(EntriesIn(index_file)) + 1
                  /\ Some(EntriesIn(index_file')[Len(returned')].version) = last'.ret
             ELSE EntriesIn(index_file') = EntriesIn(index_file)]_vars

\* three entries after three create_version calls returned, with rollbacks
\* made in between and after
C16_Witness ==
    /\ Len(EntriesIn(index_file)) = 3
    /\ returned = <<1, 2, 3>>
    /\ rollbacks_done = 2
    /\ last.op = "rollback_to_version"
    /\ last.result = "ok"

----------------------------------------------------------------------------
(* The rollback audit log *)

\* C17: the rollback audit log is append-only. Every operation (create,
\* rollback, compare; successful or not) leaves the history it found as a
\* prefix of the history it leaves: a rollback whose logging step went through
\* adds its own event as the last one, so the history reads oldest first, and
\* every other step leaves the history as it was. get_rollback_history() is
\* the empty list as long as no log file exists.
C17_RollbackLogAppendOnly ==
    /\ (rollback_log_file = None => get_rollback_history = <<>>)
    /\ [][/\ IsPrefix(get_rollback_history, get_rollback_history')
          /\ rollback_log_file' = None => get_rollback_history' = <<>>
          /\ IF /\ last'.op = "rollback_to_version"
                /\ last'.result = "ok"
                /\ rollbacks_done' = rollbacks_done + 1
                /\ ~last'.ret[3]
             THEN /\ Len(get_rollback_history') = Len(get_rollback_history) + 1
                  /\ get_rollback_history'[Len(get_rollback_history')] =
                         [from_version |-> get_current_version,
                          to_version |-> Some(last'.arg)]
             ELSE get_rollback_history' = get_rollback_history]_vars

\* v2 was left for v1, v3 was created, and then v3 was left for v2: the history
\* holds the two events in that order
C17_Witness ==
    /\ last.op = "rollback_to_version"
    /\ last.result = "ok"
    /\ get_rollback_history =
           <<[from_version |-> Some(VersionName(2)),
              to_version |-> Some(VersionName(1))],
             [from_version |-> Some(VersionName(3)),
              to_version |-> Some(VersionName(2))]>>

----------------------------------------------------------------------------
(* Listing the versions *)

\* the names of the form v<integer>, each with the integer it carries
NumberOfName ==
    [item \in {<<"v", "1">>, <<"v", "2">>, <<"v", "9">>, <<"v", "1", "0">>,
               <<"v", "0", "7">>, <<"v", "-", "1">>, <<"v", " ", "3">>,
               <<"v", "1", "_", "1">>, <<"v", "5">>} |->
        CASE item = <<"v", "1">> -> 1
          [] item = <<"v", "2">> -> 2
          [] item = <<"v", "9">> -> 9
          [] item = <<"v", "1", "0">> -> 10
          [] item = <<"v", "0", "7">> -> 7
          [] item = <<"v", "-", "1">> -> 0 - 1
          [] item = <<"v", " ", "3">> -> 3
          [] item = <<"v", "1", "_", "1">> -> 11
          [] item = <<"v", "5">> -> 5]

\* C18: get_all_versions() returns exactly the directories of the versions
\* directory whose names have the form v<integer> (an integer as int() reads
\* it), each once, in ascending order of the integer: v10 comes after v9.
\* Plain files of that form and directories with other names are left out.
C18_VersionsSortedByNumber ==
    last.op = "get_all_versions" =>
        LET versions == last.ret
        IN  /\ Range(versions) =
                   {item \in DOMAIN versions_dir :
                       /\ item \in DOMAIN NumberOfName
                       /\ versions_dir[item] # PlainFile}
            /\ \A i \in 1..Len(versions), j \in 1..Len(versions) :
                   i < j => NumberOfName[versions[i]] < NumberOfName[versions[j]]

\* v1, v2, v9 and v10 are listed in that order from a directory that also
\* holds directories with other names and a plain file named like a version
C18_Witness ==
    /\ last.op = "get_all_versions"
    /\ last.ret = <<VersionName(1), VersionName(2), VersionName(9),
                    VersionName(10)>>
    /\ {<<"v", "x">>, <<"t", "m", "p">>, <<"v">>, <<"v", "5">>}
           \subseteq DOMAIN versions_dir

----------------------------------------------------------------------------
(* Comparing a version with itself *)

\* C19: for every version create_version has returned, compare_versions(v, v)
\* returns a report, under every configuration, in which each section that is
\* switched on shows no difference: row-count difference 0, no added and no
\* removed columns, no type changes; total_differences is 0 and the only key
\* change is "No significant differences found".
C19_SelfComparisonEmpty ==
    \A n \in Range(returned), config \in ComparisonConfigs :
        LET v == VersionName(n)
            result == compare_versions(v, v, config)
        IN  /\ result # None
            /\ LET report == result[1].report
                   summary == result[1].summary
               IN  /\ (report.row_count_comparison = None) = ~config.compare_row_count
                   /\ (report.column_comparison = None) = ~config.compare_columns
                   /\ (report.data_type_comparison = None) = ~config.compare_data_types
                   /\ report.row_count_comparison # None =>
                          /\ report.row_count_comparison[1].difference = 0
                          /\ report.row_count_comparison[1].direction = "no change"
                   /\ report.column_comparison # None =>
                          /\ report.column_comparison[1].added_columns = {}
                          /\ report.column_comparison[1].removed_columns = {}
                          /\ report.column_comparison[1].columns_added_count = 0
                          /\ report.column_comparison[1].columns_removed_count = 0
                   /\ report.data_type_comparison # None =>
                          /\ DOMAIN report.data_type_comparison[1].changed_columns = {}
                          /\ report.data_type_comparison[1].total_changes = 0
                   /\ summary.total_differences = 0
                   /\ summary.key_changes =
                          <<<<"No significant differences found">>>>

\* v2, which holds the other dataset than v1, was compared with itself
C19_Witness ==
    /\ last.op = "compare_versions"
    /\ last.result = "ok"
    /\ last.arg = <<VersionName(2), VersionName(2)>>
    /\ returned = <<1, 2>>
    /\ versions_dir[VersionName(1)].dataset = Some("a.csv")
    /\ versions_dir[VersionName(2)].dataset = Some("b.csv")
    /\ versions_dir[VersionName(2)].metadata[1].row_count = 3

----------------------------------------------------------------------------
(* Row count and columns of a CSV text *)

\* the text of "a.csv"
SourceText == input_files["a.csv"].text

\* the number of quote characters before position i is odd
InQuotes(text, i) ==
    Cardinality({k \in 1..(i - 1) : text[k] = "\""}) % 2 = 1

\* the quoting is well formed: every quoted field is closed, a quote opens at
\* the start of a field only and a closing quote ends its field, unless the
\* two form a doubled quote inside a quoted field
WellQuoted(text) ==
    /\ ~InQuotes(text, Len(text) + 1)
    /\ \A i \in 1..Len(text) :
          text[i] = "\"" =>
              IF InQuotes(text, i)
              THEN i = Len(text) \/ text[i + 1] \in {",", "\n", "\""}
              ELSE i = 1 \/ text[i - 1] \in {",", "\n", "\""}

\* a valid CSV input: a header line is there and the quoting is well formed
ValidCsv(text) == Len(text) > 0 /\ WellQuoted(text)

\* the last line has no line break after it
OpenLastLine(text) == Len(text) > 0 /\ text[Len(text)] # "\n"

\* the number of lines of the text
LineCount(text) ==
    Cardinality({i \in 1..Len(text) : text[i] = "\n"})
        + (IF OpenLastLine(text) THEN 1 ELSE 0)

\* the line breaks that lie inside a quoted field
QuotedBreaks(text) == {i \in 1..Len(text) : text[i] = "\n" /\ InQuotes(text, i)}

\* the first line of the text
FirstLine(text) ==
    LET breaks == {i \in 1..Len(text) : text[i] = "\n"}
    IN  IF breaks = {} THEN text
        ELSE SubSeq(text, 1, (CHOOSE i \in breaks : \A j \in breaks : i <= j) - 1)

\* a line without quotes cut at its commas
RECURSIVE SplitCommas(_)
SplitCommas(line) ==
    LET commas == {i \in 1..Len(line) : line[i] = ","}
    IN  IF commas = {} THEN <<line>>
        ELSE LET c == CHOOSE i \in commas : \A j \in commas : i <= j
             IN  <<SubSeq(line, 1, c - 1)>>
                     \o SplitCommas(SubSeq(line, c + 1, Len(line)))

\* the columns are the fields of the header line, in its order
ColumnsInOrder(columns, text) ==
    /\ columns = Head(csv_reader(text))
    /\ ("\"" \notin Range(FirstLine(text)) /\ FirstLine(text) # <<>>) =>
           columns = SplitCommas(FirstLine(text))
    /\ FirstLine(text) = <<>> => columns = <<>>

\* C21 as stated: for every valid CSV input, the metadata of a version
\* create_version returned has row_count equal to the number of lines of the
\* file minus the header line, and columns equal to the header row in order.
C21_RowCountIsLinesMinusHeader ==
    \A n \in Range(returned) :
        ValidCsv(SourceText) =>
            LET metadata == get_version_metadata(VersionName(n))
            IN  /\ metadata # None
                /\ metadata[1].row_count = LineCount(SourceText) - 1
                /\ ColumnsInOrder(metadata[1].columns, SourceText)

\* C21 amended: for every valid CSV input, the metadata of a version
\* create_version returned has row_count equal to the number of records after
\* the header (the lines minus the header line, a line break inside a quoted
\* field not ending a line), so it equals the number of lines minus one
\* exactly when no quoted field holds a line break; columns equal the header
\* row in its original order.
C21_RowCountIsRecordsAfterHeader ==
    \A n \in Range(returned) :
        ValidCsv(SourceText) =>
            LET metadata == get_version_metadata(VersionName(n))
            IN  /\ metadata # None
                /\ metadata[1].row_count =
                       LineCount(SourceText)
                           - Cardinality(QuotedBreaks(SourceText)) - 1
                /\ (QuotedBreaks(SourceText) = {}) =
                       (metadata[1].row_count = LineCount(SourceText) - 1)
                /\ metadata[1].column_count = Len(metadata[1].columns)
                /\ ColumnsInOrder(metadata[1].columns, SourceText)

\* a version was made of the three lines a, " and ", which are a header and
\* one record holding a line break: row_count is 1
C21_Witness ==
    /\ last.op = "create_version"
    /\ last.result = "ok"
    /\ SourceText = <<"a", "\n", "\"", "\n", "\"">>
    /\ ValidCsv(SourceText)
    /\ LineCount(SourceText) = 3
    /\ get_version_metadata(last.ret[1])[1].row_count = 1
    /\ get_version_metadata(last.ret[1])[1].columns = <<<<"a">>>>

----------------------------------------------------------------------------
(* The comparison report *)

\* the pairs of versions compare_versions returns a report for
ComparablePairs ==
    {pair \in (DOMAIN versions_dir) \X (DOMAIN versions_dir) :
        \A i \in 1..2 : /\ get_version_metadata(pair[i]) # None
                        /\ get_version_dataset_path(pair[i]) # None}

\* the columns both records have whose types differ
RetypedColumns(metadata1, metadata2) ==
    {col \in Range(metadata1.columns) \cap Range(metadata2.columns) :
        metadata1.data_types[col] # metadata2.data_types[col]}

\* the differences between two metadata records that the sections switched on
\* by the configuration report, by the text of their message
FiredSignals(metadata1, metadata2, config) ==
    {signal \in {"Row count changed by", "columns added", "columns removed",
                 "data types changed"} :
        CASE signal = "Row count changed by" ->
                 /\ config.compare_row_count
                 /\ metadata1.row_count # metadata2.row_count
          [] signal = "columns added" ->
                 /\ config.compare_columns
                 /\ Range(metadata2.columns) \ Range(metadata1.columns) # {}
          [] signal = "columns removed" ->
                 /\ config.compare_columns
                 /\ Range(metadata1.columns) \ Range(metadata2.columns) # {}
          [] signal = "data types changed" ->
                 /\ config.compare_data_types
                 /\ RetypedColumns(metadata1, metadata2) # {}}

\* C22: the summary of a comparison counts the signals that fired (row count
\* changed, some column added, some column removed, some type changed):
\* total_differences is their number, between 0 and 4, key_changes holds one
\* message per fired signal and no other, and "No significant differences
\* found" is the single message exactly when no signal fired.
C22_SummaryCountsSignals ==
    \A pair \in ComparablePairs, config \in ComparisonConfigs :
        LET summary == compare_versions(pair[1], pair[2], config)[1].summary
            fired == FiredSignals(get_version_metadata(pair[1])[1],
                                  get_version_metadata(pair[2])[1], config)
            messages == {summary.key_changes[i][1] :
                            i \in 1..Len(summary.key_changes)}
        IN  /\ summary.total_differences = Cardinality(fired)
            /\ summary.total_differences \in 0..4
            /\ IF fired = {}
               THEN summary.key_changes =
                        <<<<"No significant differences found">>>>
               ELSE /\ Len(summary.key_changes) = Cardinality(fired)
                    /\ messages = fired

\* v1 holds "a.csv" and v2 a file with one more row, a column less, a column
\* more and another type in the column they share; they were compared, and
\* with every section switched on all four signals fire
C22_Witness ==
    /\ last.op = "compare_versions"
    /\ last.result = "ok"
    /\ last.arg = <<VersionName(1), VersionName(2)>>
    /\ versions_dir[VersionName(1)].dataset = Some("a.csv")
    /\ versions_dir[VersionName(2)].dataset = Some("b.csv")
    /\ \E config \in ComparisonConfigs :
          compare_versions(VersionName(1), VersionName(2), config)[1]
              .summary.total_differences = 4

\* the configuration with every section switched on
AllSections ==
    [compare_row_count |-> TRUE, compare_columns |-> TRUE,
     compare_data_types |-> TRUE, include_sample_data |-> TRUE,
     sample_size |-> 1]

\* the signals a report holds: sections that are present and show a difference
ReportedSignals(report) ==
    (IF /\ report.row_count_comparison # None
        /\ report.row_count_comparison[1].difference # 0
     THEN 1 ELSE 0)
    + (IF /\ report.column_comparison # None
          /\ report.column_comparison[1].added_columns # {}
       THEN 1 ELSE 0)
    + (IF /\ report.column_comparison # None
          /\ report.column_comparison[1].removed_columns # {}
       THEN 1 ELSE 0)
    + (IF /\ report.data_type_comparison # None
          /\ DOMAIN report.data_type_comparison[1].changed_columns # {}
       THEN 1 ELSE 0)

\* C23: each of the four sub-comparisons (row count, columns, data types,
\* sample data) is in the report exactly when its toggle is on, and then it is
\* what it is with every toggle on, whatever the other three toggles are; the
\* summary is always there and counts the signals of the sections present.
C23_SectionsFollowToggles ==
    \A pair \in ComparablePairs, config \in ComparisonConfigs :
        LET result == compare_versions(pair[1], pair[2], config)[1]
            full == compare_versions(pair[1], pair[2], AllSections)[1].report
        IN  /\ result.report.row_count_comparison =
                   IF config.compare_row_count
                   THEN full.row_count_comparison ELSE None
            /\ result.report.column_comparison =
                   IF config.compare_columns
                   THEN full.column_comparison ELSE None
            /\ result.report.data_type_comparison =
                   IF config.compare_data_types
                   THEN full.data_type_comparison ELSE None
            /\ result.report.sample_data_comparison =
                   IF config.include_sample_data
                   THEN full.sample_data_comparison ELSE None
            /\ full.row_count_comparison # None
            /\ full.column_comparison # None
            /\ full.data_type_comparison # None
            /\ full.sample_data_comparison # None
            /\ result.summary.total_differences = ReportedSignals(result.report)
            /\ Len(result.summary.key_changes) >= 1

\* v2 and v1 differ in all four signals and were compared; with the data
\* types alone switched on the report holds that section only and the summary
\* counts one difference
C23_Witness ==
    /\ last.op = "compare_versions"
    /\ last.result = "ok"
    /\ last.arg = <<VersionName(2), VersionName(1)>>
    /\ compare_versions(VersionName(2), VersionName(1), AllSections)[1]
           .summary.total_differences = 4
    /\ LET only_types == [AllSections EXCEPT !.compare_row_count = FALSE,
                                             !.compare_columns = FALSE,
                                             !.include_sample_data = FALSE]
           result == compare_versions(VersionName(2), VersionName(1), only_types)[1]
       IN  /\ result.report.data_type_comparison # None
           /\ result.report.column_comparison = None
           /\ result.summary.total_differences = 1

----------------------------------------------------------------------------
(* A dataset whose analysis raises *)

\* the file create_version was called on in this step
CreatedFrom == input_files[last'.arg]

\* the metadata written for the version this step returned
NewMetadata == versions_dir'[last'.ret[1]].metadata

\* create_version was called on a file whose reading raises, with a quality
\* score in range
DegradedCreate ==
    /\ last'.op = "create_version"
    /\ PathKind(last'.arg) = "file"
    /\ ReadFault(CreatedFrom) # "none"
    /\ last'.result # "ValueError"

\* the call returned the new version, its metadata file exists, the index
\* gained its entry and the marker names it
CreatedAllTheSame ==
    /\ last'.result = "ok"
    /\ last'.ret # None
    /\ NewMetadata # None
    /\ NewMetadata[1].version = last'.ret[1]
    /\ EntriesIn(index_file') =
           Append(EntriesIn(index_file),
                  [version |-> last'.ret[1],
                   row_count |-> NewMetadata[1].row_count,
                   column_count |-> NewMetadata[1].column_count,
                   quality_score |-> NewMetadata[1].quality_score])
    /\ current_version_of(current_version_file') = last'.ret

----------------------------------------------------------------------------
(* The order of the steps of a rollback *)

\* the locals of the call of rollback_to_version in flight
InFlight == procs["p1"]

\* the annotation _create_rollback_backup appends for a version
BackupAnnotation(name) ==
    [backed_up_version |-> name, reason |-> "Pre-rollback backup"]

\* C25: a rollback makes its steps in the order backup annotation, marker
\* repoint, audit append. The annotation is written while the marker still
\* names the version being left, onto that version and naming it, never onto
\* the target; the marker is repointed to the target before the audit record
\* is there; and the step that appends the audit record {from, to} finds the
\* marker already at its to-version and leaves it there.
C25_BackupThenMarkerThenAudit ==
    [][InFlight.pc \in RollbackPcs =>
          /\ versions_dir' # versions_dir =>
                /\ InFlight.current_version # None
                /\ get_current_version = InFlight.current_version
                /\ InFlight.current_version[1] # InFlight.target_version
                /\ versions_dir' =
                       [versions_dir EXCEPT
                           ![InFlight.current_version[1]].metadata =
                               Some([@[1] EXCEPT !.backups =
                                        Append(@, BackupAnnotation(
                                                      InFlight.current_version[1]))])]
                /\ UNCHANGED <<current_version_file, rollback_log_file>>
          /\ current_version_file' # current_version_file =>
                /\ get_current_version = InFlight.current_version
                /\ current_version_of(current_version_file') =
                       Some(InFlight.target_version)
                /\ UNCHANGED <<versions_dir, rollback_log_file>>
          /\ rollback_log_file' # rollback_log_file =>
                /\ get_rollback_history' =
                       Append(get_rollback_history,
                              [from_version |-> InFlight.current_version,
                               to_version |-> Some(InFlight.target_version)])
                /\ get_current_version = Some(InFlight.target_version)
                /\ UNCHANGED <<versions_dir, current_version_file>>
                /\ last'.op = "rollback_to_version"
                /\ last'.result = "ok"]_vars

\* a rollback from v2 to v1 went through all three steps: v2 holds the
\* annotation, v1 holds none, the marker names v1 and the audit record is there
C25_Witness ==
    /\ last.op = "rollback_to_version"
    /\ last.result = "ok"
    /\ last.ret = <<TRUE, FALSE, FALSE>>
    /\ InFlight.pc = "idle"
    /\ get_current_version = Some(VersionName(1))
    /\ get_rollback_history =
           <<[from_version |-> Some(VersionName(2)),
              to_version |-> Some(VersionName(1))]>>
    /\ versions_dir[VersionName(2)].metadata[1].backups =
           <<BackupAnnotation(VersionName(2))>>
    /\ versions_dir[VersionName(1)].metadata[1].backups = <<>>

----------------------------------------------------------------------------
(* What a rollback leaves alone *)

\* C26: a call of rollback_to_version, refused or successful, leaves the
\* index, the set of version directories and every copied dataset as they
\* were, and every metadata file as it was except for the backups list of the
\* version that was current before the call, which may grow by one
\* annotation; the metadata of the target is not modified.
C26_RollbackFrame ==
    [][last'.op = "rollback_to_version" =>
          /\ index_file' = index_file
          /\ DOMAIN versions_dir' = DOMAIN versions_dir
          /\ \A name \in DOMAIN versions_dir :
                /\ versions_dir'[name].dataset = versions_dir[name].dataset
                /\ (versions_dir'[name].metadata = None) =
                       (versions_dir[name].metadata = None)
                /\ versions_dir[name].metadata # None =>
                      CoreFields(versions_dir'[name].metadata[1]) =
                          CoreFields(versions_dir[name].metadata[1])
                /\ Some(name) # get_current_version =>
                      versions_dir'[name].metadata = versions_dir[name].metadata
                /\ (versions_dir'[name].metadata # versions_dir[name].metadata) =>
                      /\ last'.result = "ok"
                      /\ name # last'.arg
                      /\ versions_dir'[name].metadata[1].backups =
                             Append(versions_dir[name].metadata[1].backups,
                                    [backed_up_version |-> name,
                                     reason |-> "Pre-rollback backup"])
          /\ last'.arg \in DOMAIN versions_dir =>
                versions_dir'[last'.arg] = versions_dir[last'.arg]]_vars

\* three versions exist; the rollback from v3 to v2 annotated v3 and left v1
\* and v2 without annotation
C26_Witness ==
    /\ last.op = "rollback_to_version"
    /\ last.result = "ok"
    /\ last.arg = VersionName(2)
    /\ returned = <<1, 2, 3>>
    /\ Len(versions_dir[VersionName(3)].metadata[1].backups) = 1
    /\ versions_dir[VersionName(1)].metadata[1].backups = <<>>
    /\ versions_dir[VersionName(2)].metadata[1].backups = <<>>
    /\ Len(EntriesIn(index_file)) = 3

----------------------------------------------------------------------------
(* The index, the directories and the metadata files *)

\* the identifiers in the index
IndexedVersions == Range(IndexVersions)

\* the identifiers get_all_versions returns
ListedVersions == Range(get_all_versions)

\* v1..vn
FirstVersions(n) == {VersionName(k) : k \in 1..n}

\* the marker names one of the versions
MarkerIn(S) == get_current_version # None /\ get_current_version[1] \in S

\* C27 as stated: with one process, no crash and no manual deletion, after n
\* successful creates among any successful and failed create_version and
\* rollback_to_version calls, the identifiers in the index, those returned by
\* get_all_versions() and those with a metadata file are all {v1..vn}, and for
\* n >= 1 the marker names one of them.
C27_IndexListingMetadataAgree ==
    LET n == Len(returned)
    IN  /\ IndexedVersions = FirstVersions(n)
        /\ ListedVersions = FirstVersions(n)
        /\ WithMetadata(versions_dir) = FirstVersions(n)
        /\ n >= 1 => MarkerIn(FirstVersions(n))

\* C27 amended: under the same conditions the identifiers in the index and
\* those with a metadata file are the n identifiers create_version returned.
\* get_all_versions() returns them and, in addition, the directory of every
\* create_version that failed after making it, which has neither dataset nor
\* metadata: the listing is {v1..vm} for some m >= n, and when no such
\* directory exists the three sets are {v1..vn}. For n >= 1 the marker names
\* a listed version, and it names one without metadata only after a rollback
\* to it.
C27_IndexAndMetadataAgreeWithinListing ==
    LET n == Len(returned)
        created == {VersionName(returned[i]) : i \in 1..n}
    IN  /\ IndexedVersions = created
        /\ WithMetadata(versions_dir) = created
        /\ Cardinality(created) = n
        /\ n >= 1 => MarkerIn(ListedVersions)
        /\ MarkerIn(ListedVersions \ created) => rollbacks_done > 0
        /\ created \subseteq ListedVersions
        /\ ListedVersions = FirstVersions(Cardinality(ListedVersions))
        /\ \A name \in ListedVersions \ created :
              /\ versions_dir[name].dataset = None
              /\ versions_dir[name].metadata = None
        /\ ListedVersions = created => created = FirstVersions(n)

\* two creates succeeded around one whose copy failed, and a rollback went
\* back to v1: the index and the metadata files are those of v1 and v3, the
\* listing holds v2 as well
C27_Witness ==
    /\ returned = <<1, 3>>
    /\ IndexedVersions = {VersionName(1), VersionName(3)}
    /\ WithMetadata(versions_dir) = {VersionName(1), VersionName(3)}
    /\ get_all_versions = <<VersionName(1), VersionName(2), VersionName(3)>>
    /\ last.op = "rollback_to_version"
    /\ last.result = "ok"
    /\ get_current_version = Some(VersionName(1))

----------------------------------------------------------------------------
(* Allocation after a rollback *)

\* the numbers k with vk in S
NumbersIn(S) == {k \in 1..MaxVersions : VersionName(k) \in S}

\* the marker names the highest version of S (no version: no marker)
MarkerAtTop(marker, S) ==
    IF NumbersIn(S) = {} THEN marker = None
    ELSE marker = Some(VersionName(MaxOf(NumbersIn(S))))

\* a successful create returns the identifier after the highest existing
\* directory, wherever the marker is, makes it current and leaves every
\* existing directory as it was
CreateAllocatesAboveHighest ==
    CreateSucceeded =>
        LET existing == NumbersIn(DOMAIN versions_dir)
            new == VersionName(IF existing = {} THEN 1 ELSE MaxOf(existing) + 1)
        IN  /\ last'.ret = Some(new)
            /\ current_version_file' = Some(new)
            /\ DOMAIN versions_dir' = DOMAIN versions_dir \cup {new}
            /\ new \notin DOMAIN versions_dir
            /\ \A name \in DOMAIN versions_dir :
                  versions_dir'[name] = versions_dir[name]

\* C28 as stated: a create_version issued after a rollback allocates from the
\* highest existing version, not from the marker: it returns v(k+1), makes it
\* current and keeps the versions above the marker untouched; so the marker
\* equals the highest existing version (directory) unless the last marker
\* change was a rollback.
C28_MarkerAtHighestExisting ==
    [][/\ CreateAllocatesAboveHighest
       /\ (~RollbackSucceeded /\ MarkerAtTop(current_version_file, DOMAIN versions_dir))
             => MarkerAtTop(current_version_file', DOMAIN versions_dir')]_vars

\* C28 amended: the allocation is as stated, and the marker equals the highest
\* version that has a metadata file unless the last marker change was a
\* rollback; a create_version that failed after making its directory leaves a
\* higher directory that the marker does not name.
C28_MarkerAtHighestCreated ==
    [][/\ CreateAllocatesAboveHighest
       /\ (~RollbackSucceeded /\ MarkerAtTop(current_version_file, WithMetadata(versions_dir)))
             => MarkerAtTop(current_version_file', WithMetadata(versions_dir'))]_vars

\* v1 and v2 were created, a rollback went from v2 to v1, and the create
\* issued then returned v3 and made it current
C28_Witness ==
    /\ last.op = "create_version"
    /\ last.result = "ok"
    /\ last.ret = Some(VersionName(3))
    /\ returned = <<1, 2, 3>>
    /\ get_rollback_history = <<[from_version |-> Some(VersionName(2)),
                                 to_version |-> Some(VersionName(1))]>>
    /\ get_current_version = Some(VersionName(3))
    /\ HasMetadata(Some(VersionName(2)))

----------------------------------------------------------------------------
(* What rollback_to_version refuses, and what is_safe_to_rollback refuses *)

\* the target is a listed version and not the one the marker names
Acceptable(target_version) ==
    /\ target_version \in ListedVersions
    /\ get_current_version # Some(target_version)

\* C29: rollback_to_version(target) raises exactly when target is not in
\* get_all_versions() or equals the current marker (not-found first); it does
\* not look at the target's metadata file and accepts an unset marker. So a
\* call on a target that is_safe_to_rollback calls safe in the state the call
\* starts from succeeds, and a call succeeds on a target that is not safe
\* exactly when the target's metadata file is missing.
C29_RollbackRaisesOnlyOnUnknownOrCurrent ==
    [][last'.op = "rollback_to_version" =>
          LET target_version == last'.arg
              safe == is_safe_to_rollback(target_version).safe
              listed == target_version \in ListedVersions
              current == get_current_version = Some(target_version)
          IN  /\ (last'.result = "ok") = (listed /\ ~current)
              /\ (last'.result = "FileNotFoundError") = ~listed
              /\ (last'.result = "ValueError") = (listed /\ current)
              /\ last'.result = "ok" => current_version_file' = Some(target_version)
              /\ safe => last'.result = "ok"
              /\ (last'.result = "ok" /\ ~safe)
                    = /\ listed
                      /\ ~current
                      /\ versions_dir[target_version].metadata = None]_vars

\* no create has succeeded and the marker was unset; a rollback to the
\* directory a failed create left behind went through, although
\* is_safe_to_rollback refused that target for its missing metadata
C29_Witness ==
    /\ returned = <<>>
    /\ last.op = "rollback_to_version"
    /\ last.result = "ok"
    /\ last.arg = VersionName(1)
    /\ versions_dir[VersionName(1)].metadata = None
    /\ get_rollback_history = <<[from_version |-> None,
                                 to_version |-> Some(VersionName(1))]>>
    /\ VersionName(2) \in ListedVersions
    /\ Acceptable(VersionName(2))
    /\ ~is_safe_to_rollback(VersionName(2)).safe

----------------------------------------------------------------------------
(* Directories left behind by a create_version that did not finish *)

\* the version directory a running create_version is working on
BeingCreated ==
    IF procs["p1"].pc = "idle" THEN {} ELSE {procs["p1"].version_name[1]}

\* the version directories without a metadata file that no running
\* create_version is working on
LeftBehind(vd) ==
    {name \in DOMAIN vd : vd[name].metadata = None} \ BeingCreated

\* what holds of a directory left behind whatever happens later: it is
\* listed, it has no metadata to read, the index does not name it, and the
\* next identifier lies above it
ConsumesIdentifier(name) ==
    /\ name \in ListedVersions
    /\ get_version_metadata(name) = None
    /\ name \notin IndexedVersions
    /\ VersionName(get_next_version_number(versions_dir)) # name
    /\ get_next_version_number(versions_dir) > IntOfSuffix[name][1]

\* C30 as stated: a version directory left behind by a create_version that
\* stopped after creating the directory and before writing metadata (crash or
\* failed copy) is listed by get_all_versions(), the next create_version
\* allocates a strictly higher identifier, get_version_metadata on it fails
\* with not-found, and the index and the marker do not name it.
C30_PartialDirectoryNeverNamed ==
    \A name \in LeftBehind(versions_dir) :
        /\ ConsumesIdentifier(name)
        /\ get_current_version # Some(name)

\* C30 amended: such a directory is listed by get_all_versions(), every later
\* create_version allocates a strictly higher identifier and nothing writes
\* into the directory, get_version_metadata on it fails with not-found, and
\* the index does not name it; no create_version makes the marker name it,
\* but a rollback_to_version to it does.
C30_PartialDirectoryConsumesIdentifier ==
    [][\A name \in LeftBehind(versions_dir) :
          /\ ConsumesIdentifier(name)
          /\ name \in DOMAIN versions_dir'
          /\ versions_dir'[name] = versions_dir[name]
          /\ \A new \in DOMAIN versions_dir' \ DOMAIN versions_dir :
                IntOfSuffix[new][1] > IntOfSuffix[name][1]
          /\ procs'["p1"].pc # "idle" =>
                IntOfSuffix[procs'["p1"].version_name[1]][1] > IntOfSuffix[name][1]
          /\ (current_version_file' = Some(name) /\ current_version_file # Some(name))
                => /\ last'.op = "rollback_to_version"
                   /\ last'.result = "ok"
                   /\ last'.arg = name]_vars

\* v1 was left without a dataset by a failed copy and v2 with one by a crash
\* after the copy; the create that followed returned v3, and the marker is v3
C30_Witness ==
    /\ DOMAIN versions_dir = {VersionName(1), VersionName(2), VersionName(3)}
    /\ versions_dir[VersionName(1)] = [dataset |-> None, metadata |-> None]
    /\ versions_dir[VersionName(2)].dataset # None
    /\ versions_dir[VersionName(2)].metadata = None
    /\ LeftBehind(versions_dir) = {VersionName(1), VersionName(2)}
    /\ returned = <<3>>
    /\ IndexedVersions = {VersionName(3)}
    /\ last.op = "create_version"
    /\ last.result = "ok"
    /\ get_current_version = Some(VersionName(3))

====
